---- MODULE Spec2Model ----
(***************************************************************************)
(* Verification model of the CrowdStrike -> MISP indicator import          *)
(* (cs_misp_import): the retry wrapper of the MISP client                  *)
(* (threaded_misp.py), the construction of the deduplication index and the *)
(* batched, threaded indicator pipeline (indicators.py).                   *)
(*                                                                         *)
(* Three specifications share the module:                                  *)
(*   SpecRetry  MISP._retry driven by MISP.add_sighting                     *)
(*   SpecIndex  IndicatorsImporter.find_report_indicators                  *)
(*   Spec       IndicatorsImporter.process_indicators (pages, batches,     *)
(*              indicator workers, flush workers, timestamp file)          *)
(* The variables of the parts a specification does not exercise stay at    *)
(* their idle values.                                                      *)
(***************************************************************************)
EXTENDS Integers, Sequences, FiniteSets, TLC

(***************************************************************************)
(* Program constants                                                       *)
(***************************************************************************)
\* threaded_misp.py:21  MAX_RETRIES = 3
MAX_RETRIES == 3
\* threaded_misp.py:119 and :128  timeout = 0.3 * 2 ** i, in tenths of a second
BASE_DELAY == 3

(***************************************************************************)
(* Bounds of the model                                                     *)
(***************************************************************************)
\* number of add_sighting calls made in SpecRetry
MaxSightingCalls == 2
\* number of attributes one destination search returns at most
MaxHits == 2
\* number of indicators the source feed returns in one run, over all pages
MaxIndicators == 2
\* number of pages the source feed returns in one run
MaxPages == 2
\* largest effective batch size (the code's range of 50..5000, scaled down)
MaxBatchSize == 2
\* threads of a pool (self.misp.thread_count)
MaxThreads == 2
\* indicators of the page that is pushed twice
MaxRerunPage == 1

\* longest text of a numeric setting, and the digits it is written with
MaxDigits == 6
Digits == {0, 1, 4, 5, 9}
\* longest text of event_save_memory_refresh_interval
MaxIntervalDigits == 3

\* Longest page, and largest batch size, of the runs that only slice a page
MaxSlicePage == 5
MaxSliceSize == 3

(***************************************************************************)
(* Values                                                                  *)
(***************************************************************************)
\* Python's None
None == "None"

\* What one invocation of the wrapped pymisp call f(*args, **kwargs) can give:
\*   "ok"        a response without an "errors" key
\*   "e404"      a response whose errors[0] is 404
\*   "err_dict"  another error response whose payload dict() accepts, so the
\*               log line 121 works
\*   "err_tuple" another error response whose payload makes line 121 raise
\*   "exc"       f raises (transport exception)
FOutcomes == {"ok", "e404", "err_dict", "err_tuple", "exc"}

\* Indicator types that have a MISP attribute type (helper.INDICATOR_TYPES,
\* for at, atn in INDICATOR_TYPES.items() if atn)
IndicatorTypes == {"domain", "ip_address"}

\* Indicator types for which helper.gen_indicator builds a MISPObject and no
\* MISPAttribute (lines 549-553)
ObjectTypes == {"password"}

\* Malware family names carried by indicators
Families == {"F"}

\* Indicator values
Values == {"a", "b"}

\* cs_search = f"{indicator_type_title} {itype}", the title of the event that
\* collects the indicators of one type
TypeTitle(t) ==
    CASE t = "domain" -> "Indicator Type: Domain"
      [] t = "ip_address" -> "Indicator Type: IP Address"
      [] t = "password" -> "Indicator Type: Password"

\* the title of the event that collects the indicators of one malware family
FamilyTitle(f) == CASE f = "F" -> "Malware Family: F"

TypeTitles == {TypeTitle(t) : t \in IndicatorTypes}
FamilyTitles == {FamilyTitle(f) : f \in Families}

\* MISPEvent.uuid of the event of a title
EventUuid(title) ==
    CASE title = "Indicator Type: Domain" -> "uuid-type-domain"
      [] title = "Indicator Type: IP Address" -> "uuid-type-ip"
      [] title = "Indicator Type: Password" -> "uuid-type-password"
      [] title = "Malware Family: F" -> "uuid-family-F"

\* uuid of an event that is not in self.feeds: a CrowdStrike report event
ReportUuid == "uuid-report"

\* MISPEvent.threat_level_id: 1 is high, 3 is low, 4 is undefined; a smaller
\* id is a higher threat level
ThreatHigh == 1
ThreatLow == 3
ThreatUndefined == 4


\* A MISPEvent as far as the import reads and writes it
Event(title, atts) ==
    [info |-> title, uuid |-> EventUuid(title), attributes |-> atts,
     objects |-> <<>>, threat_level_id |-> ThreatUndefined]

\* Attribute values an event can hold when the run starts
InitialAttributes == {<<>>, <<"a">>}

\* self.feeds after retrieve_or_create_feed_events and retrieve_family_events:
\* one event per indicator type, then the family events found in MISP (a
\* family event that MISP holds has an attribute)
InitialFeeds ==
    { <<Event(TypeTitle("domain"), da), Event(TypeTitle("ip_address"), <<>>),
        Event(TypeTitle("password"), <<>>)>> \o fam :
        da \in InitialAttributes,
        fam \in {<<>>, <<Event(FamilyTitle("F"), <<"a">>)>>} }

\* The timestamp MISP stored with an attribute. The import keeps it in the
\* index entry and never reads it back.
AttributeTimestamps == {1}

\* One attribute of a misp.search(controller="attributes") result
SearchHits ==
    [value : Values,
     event_uuid : {EventUuid(t) : t \in TypeTitles \cup FamilyTitles} \cup {ReportUuid},
     timestamp : AttributeTimestamps]

\* sequences over S of length at most n
SeqUpTo(S, n) == UNION { [1..k -> S] : k \in 0..n }

\* result.get("Attribute") of one search
SearchResults == SeqUpTo(SearchHits, MaxHits)

\* Python dict.update: the entries of e replace those of d
Update(d, e) ==
    [v \in DOMAIN d \cup DOMAIN e |-> IF v \in DOMAIN e THEN e[v] ELSE d[v]]

\* One indicator of the source feed:
\*   indicator       the value, None when the field is missing
\*   type            "domain" is a member of IndicatorType, "bogus" is not
\*   malware_family  the family name, None without family metadata
\*   last_updated    a unix time, 0 when the field is null
Ind(v, t, f, lu) ==
    [indicator |-> v, type |-> t, malware_family |-> f, last_updated |-> lu]

\* The indicators the source feed can return
Indicators ==
    { Ind("a", "domain", None, 1),
      Ind("a", "domain", "F", 2),
      Ind("b", "domain", "F", 0),
      Ind(None, "domain", None, 2),
      Ind("a", "bogus", None, 1),
      Ind("p", "password", None, 1) }

\* A page of the source feed
Pages(n) == SeqUpTo(Indicators, n)

\* event: MISPEvent = evt[0] if evt else None  (a position in self.feeds,
\* or NoEvent for None)
NoEvent == 0

\* lock_owner when the shared Lock is not held
Unlocked == 0

\* datetime.now() when process_indicators starts (line 169)
RequestTimes == {3}

VARIABLES
    \* ---- MISP._retry / MISP.add_sighting (threaded_misp.py)
    retry_pc,               \* position inside _retry: idle, try, check, except, returned
    i,                      \* loop variable of _retry
    response,               \* local of _retry
    retry_result,           \* value _retry returned to its caller
    attempts,               \* history: outcome of every invocation of f in this call
    slept,                  \* history: every time.sleep(timeout) of this call, in order
    sighting_pc,            \* position inside add_sighting: idle, retry, done, raised
    thread_lock,            \* add_sighting's kwargs "lock" was given
    added_sighting_count,   \* self.added_sighting_count
    sighting_calls,         \* number of add_sighting calls made so far
    \* ---- IndicatorsImporter (indicators.py)
    feeds,                  \* self.feeds: list of MISPEvent
    existing_indicators,    \* self.existing_indicators: value -> index entry
    retrieved_indicators,   \* local of find_report_indicators
    futures,                \* the futures of find_report_indicators, by type
    merged,                 \* types whose future the loop of line 132 has consumed
    index_pc,               \* position inside find_report_indicators
    do_sightings,           \* settings["MISP"]["log_duplicates_as_sightings"]
    IND_BATCH_SIZE,         \* push_indicators: the effective batch size
    thread_count,           \* self.misp.thread_count: size of a thread pool
    dirty_feeds,            \* self.dirty_feeds: title -> count
    skipped,                \* self.skipped
    batch_update,           \* self.batch_update
    misp_server,            \* the events as MISP stores them: uuid -> attributes
    timestamp_file,         \* content of the timestamp file: <<>> or <<t>>
    time_send_request,      \* process_indicators: time_send_request
    main_pc,                \* position of the main thread
    pages_fetched,          \* pages the source feed has returned so far
    indicators_count,       \* process_indicators: indicators_count
    indicators,             \* push_indicators: the page being pushed
    ind_batches,            \* push_indicators: batches not started yet
    batch,                  \* the batch being processed
    workers,                \* the indicator_thread of every indicator of the batch
    flushers,               \* the event_thread of every dirty event: title -> thread
    lock_owner,             \* holder of the Lock shared by the threads of a pool
    unsaved,                \* titles whose last flush of this page saved nothing
    preloaded,              \* history: uuid -> what MISP stored when the run started
    run,                    \* 1 for the first run of the program, 2 for a rerun
    first_page,             \* history: the page the first run pushed, for a rerun
    \* ---- settings and their use (indicators.py, importer.py)
    settings_pc,            \* position of the code that reads a setting
    ind_attribute_batch_size, \* settings["MISP"]["ind_attribute_batch_size"]: <<>> or <<text>>
    \* ---- one event_thread with its clock (indicators.py:231-294)
    event_save_memory_refresh_interval, \* the setting of that name: <<>> or <<text>>
    evt_pc,                 \* position inside event_thread
    evt_tries,              \* event_thread: tries
    evt_successful,         \* event_thread: successful
    duration,               \* event_thread: duration, seconds since save_start
    save_time,              \* history: seconds the last update_event call took
    refreshed,              \* history: the thread entered the refresh of lines 264-282
    \* ---- one call of a method of self.misp (threaded_misp.py, indicators.py)
    misp_method,            \* the method of the MISP client that is called
    call_pc,                \* position of the call: idle, retry, direct, returned, raised
    \* ---- CrowdstrikeToMISPImporter.__init__ (importer.py:28-53)
    ctor_pc,                \* idle, confirm, create, SystemExit, KeyError, constructed
    import_settings,        \* the keys that the import_settings dictionary holds
    item,                   \* position of the loop over confirm_settings
    misp_client,            \* self.misp_client: None until MISP(...) has returned
    \* ---- the start of process_indicators (indicators.py:155-185, 608-612)
    start_pc,               \* idle, note, default, read, fetch, got
    force,                  \* import_settings.get("force", False)
    isfile,                 \* os.path.isfile(self.indicators_timestamp_filename)
    ts_file,                \* the text of the timestamp file
    note_arg,               \* what the previous run passed to _note_timestamp
    indicators_mins_before, \* the argument of process_indicators
    start_get_events        \* the start time, at the end the one get_indicators is given

retryVars == <<retry_pc, i, response, retry_result, attempts, slept,
               sighting_pc, thread_lock, added_sighting_count, sighting_calls>>

indexVars == <<feeds, existing_indicators, retrieved_indicators, futures,
               merged, index_pc>>

batchVars == <<settings_pc, ind_attribute_batch_size>>

refreshVars == <<event_save_memory_refresh_interval, evt_pc, evt_tries,
                 evt_successful, duration, save_time, refreshed>>

callVars == <<misp_method, call_pc>>

ctorVars == <<ctor_pc, import_settings, item, misp_client>>

startVars == <<start_pc, force, isfile, ts_file, note_arg, indicators_mins_before,
               start_get_events>>

settingsVars == <<batchVars, refreshVars, callVars, ctorVars, startVars>>

\* what the actions about one of these groups leave alone of the others
batchRest == <<refreshVars, callVars, ctorVars, startVars>>
refreshRest == <<batchVars, callVars, ctorVars, startVars>>
callRest == <<batchVars, refreshVars, ctorVars, startVars>>
ctorRest == <<batchVars, refreshVars, callVars, startVars>>
startRest == <<batchVars, refreshVars, callVars, ctorVars>>

pipelineVars == <<do_sightings, IND_BATCH_SIZE, thread_count, dirty_feeds,
                  skipped, batch_update, misp_server, timestamp_file,
                  time_send_request, main_pc, pages_fetched, indicators_count,
                  indicators, ind_batches, batch, workers, flushers, lock_owner,
                  unsaved, preloaded, run, first_page>>

pipeVars == <<settingsVars, pipelineVars>>

vars == <<retryVars, indexVars, pipeVars>>

\* __init__ lines 96-98: no feed event, no index yet
IndexIdle ==
    /\ feeds = <<>>
    /\ existing_indicators = <<>>
    /\ retrieved_indicators = <<>>
    /\ futures = <<>>
    /\ merged = {}
    /\ index_pc = "idle"

\* no setting is being read
BatchSizeIdle ==
    /\ settings_pc = "idle"
    /\ ind_attribute_batch_size = <<>>

\* no event_thread is being timed
RefreshIdle ==
    /\ event_save_memory_refresh_interval = <<>>
    /\ evt_pc = "idle"
    /\ evt_tries = 1
    /\ evt_successful = FALSE
    /\ duration = 0
    /\ save_time = 0
    /\ refreshed = FALSE

\* no method of the client is being called
CallIdle ==
    /\ misp_method = None
    /\ call_pc = "idle"

\* the importer is not being constructed
CtorIdle ==
    /\ ctor_pc = "idle"
    /\ import_settings = {}
    /\ item = 1
    /\ misp_client = None

\* nothing was passed to _note_timestamp
NoNote == [kind |-> "none", whole |-> 0, tenths |-> 0, text |-> <<>>]

\* the start time of a run is not being computed
StartIdle ==
    /\ start_pc = "idle"
    /\ force = FALSE
    /\ isfile = FALSE
    /\ ts_file = <<>>
    /\ note_arg = NoNote
    /\ indicators_mins_before = 0
    /\ start_get_events = 0

SettingsIdle == BatchSizeIdle /\ RefreshIdle /\ CallIdle /\ CtorIdle /\ StartIdle

\* __init__ lines 96-101 and the locals of process_indicators before its loop
PipelineIdle ==
    /\ do_sightings = FALSE
    /\ IND_BATCH_SIZE = 1
    /\ thread_count = 1
    /\ dirty_feeds = <<>>
    /\ skipped = 0
    /\ batch_update = 0
    /\ misp_server = <<>>
    /\ timestamp_file = <<>>
    /\ time_send_request = 0
    /\ main_pc = "idle"
    /\ pages_fetched = 0
    /\ indicators_count = 0
    /\ indicators = <<>>
    /\ ind_batches = <<>>
    /\ batch = <<>>
    /\ workers = <<>>
    /\ flushers = <<>>
    /\ lock_owner = Unlocked
    /\ unsaved = {}
    /\ preloaded = <<>>
    /\ run = 1
    /\ first_page = <<>>

PipeIdle == SettingsIdle /\ PipelineIdle

(***************************************************************************)
(* MISP._retry  (threaded_misp.py:108-141)                                 *)
(***************************************************************************)
\* lines 113-116: the response is handed back at once
IsTerminalNo404(resp) == resp = "ok"
IsTerminal(resp) == resp \in {"ok", "e404"}

\* lines 118 and 127: i + 1 < self.MAX_RETRIES
MayRetry(n) == n + 1 < MAX_RETRIES

\* lines 119 and 128: timeout = 0.3 * 2 ** i
TimeoutNextPower(n) == BASE_DELAY * 2 ^ (n + 1)
Timeout(n) == BASE_DELAY * 2 ^ n

RetryIdle ==
    /\ retry_pc = "idle" /\ i = 0 /\ response = None /\ retry_result = None
    /\ attempts = <<>> /\ slept = <<>>

\* line 109 (loop test) and line 111: response = f(*args, **kwargs)
RetryInvoke ==
    /\ retry_pc = "try"
    /\ i < MAX_RETRIES
    /\ \E out \in FOutcomes :
        /\ attempts' = Append(attempts, out)
        /\ IF out = "exc"
             THEN /\ retry_pc' = "except"
                  /\ UNCHANGED response
             ELSE /\ retry_pc' = "check"
                  /\ response' = out
    /\ UNCHANGED <<i, retry_result, slept, sighting_pc, thread_lock,
                   added_sighting_count, sighting_calls, indexVars, pipeVars>>

\* lines 113-116: no "errors" in the response, or errors[0] == 404
RetryReturn ==
    /\ retry_pc = "check"
    /\ IsTerminal(response)
    /\ retry_result' = response
    /\ retry_pc' = "returned"
    /\ UNCHANGED <<i, response, attempts, slept, sighting_pc, thread_lock,
                   added_sighting_count, sighting_calls, indexVars, pipeVars>>

\* lines 118-123: an error response that is not the last attempt. The warning
\* of line 121 evaluates dict(response['errors']); when that raises, control
\* passes to the except clause before time.sleep is reached.
RetryTryBackoff ==
    /\ retry_pc = "check"
    /\ ~IsTerminal(response)
    /\ MayRetry(i)
    /\ IF response = "err_dict"
         THEN /\ slept' = Append(slept, Timeout(i))
              /\ i' = i + 1
              /\ retry_pc' = "try"
         ELSE /\ retry_pc' = "except"
              /\ UNCHANGED <<i, slept>>
    /\ UNCHANGED <<response, retry_result, attempts, sighting_pc, thread_lock,
                   added_sighting_count, sighting_calls, indexVars, pipeVars>>

\* lines 124-125: raise PyMISPError(...) inside the try block
RetryRaise ==
    /\ retry_pc = "check"
    /\ ~IsTerminal(response)
    /\ ~MayRetry(i)
    /\ retry_pc' = "except"
    /\ UNCHANGED <<i, response, retry_result, attempts, slept, sighting_pc,
                   thread_lock, added_sighting_count, sighting_calls, indexVars, pipeVars>>

\* lines 126-132: except Exception, not the last attempt
RetryExceptBackoff ==
    /\ retry_pc = "except"
    /\ MayRetry(i)
    /\ slept' = Append(slept, Timeout(i))
    /\ i' = i + 1
    /\ retry_pc' = "try"
    /\ UNCHANGED <<response, retry_result, attempts, sighting_pc, thread_lock,
                   added_sighting_count, sighting_calls, indexVars, pipeVars>>

\* lines 133-141: except Exception on the last attempt: the error is logged,
\* "raise e" is commented out, the loop goes on
RetryExceptGiveUp ==
    /\ retry_pc = "except"
    /\ ~MayRetry(i)
    /\ i' = i + 1
    /\ retry_pc' = "try"
    /\ UNCHANGED <<response, retry_result, attempts, slept, sighting_pc,
                   thread_lock, added_sighting_count, sighting_calls, indexVars, pipeVars>>

\* the for loop of line 109 is exhausted: the function ends without a return
\* statement, its value is None
RetryFallOff ==
    /\ retry_pc = "try"
    /\ ~(i < MAX_RETRIES)
    /\ retry_result' = None
    /\ retry_pc' = "returned"
    /\ UNCHANGED <<i, response, attempts, slept, sighting_pc, thread_lock,
                   added_sighting_count, sighting_calls, indexVars, pipeVars>>

(***************************************************************************)
(* MISP.add_sighting  (threaded_misp.py:45-59)                             *)
(***************************************************************************)
\* lines 46-49: result = self._retry(super().add_sighting, ...)
AddSighting ==
    /\ sighting_pc = "idle"
    /\ sighting_calls < MaxSightingCalls
    /\ sighting_calls' = sighting_calls + 1
    /\ \E lk \in BOOLEAN : thread_lock' = lk
    /\ sighting_pc' = "retry"
    /\ retry_pc' = "try"
    /\ i' = 0
    /\ response' = None
    /\ retry_result' = None
    /\ attempts' = <<>>
    /\ slept' = <<>>
    /\ UNCHANGED <<added_sighting_count, indexVars, pipeVars>>

\* lines 50-59: if "errors" not in result: ... self.added_sighting_count += 1
\* ("errors" not in None raises TypeError)
AddSightingResume ==
    /\ sighting_pc = "retry"
    /\ retry_pc = "returned"
    /\ IF retry_result = None
         THEN /\ sighting_pc' = "raised"
              /\ UNCHANGED added_sighting_count
         ELSE /\ sighting_pc' = "done"
              /\ added_sighting_count' =
                    IF retry_result = "ok" THEN added_sighting_count + 1
                                           ELSE added_sighting_count
    /\ UNCHANGED <<retry_pc, i, response, retry_result, attempts, slept,
                   thread_lock, sighting_calls, indexVars, pipeVars>>

\* the caller goes on to its next add_sighting call
AddSightingNext ==
    /\ sighting_pc \in {"done", "raised"}
    /\ sighting_calls < MaxSightingCalls
    /\ sighting_pc' = "idle"
    /\ retry_pc' = "idle"
    /\ i' = 0
    /\ response' = None
    /\ retry_result' = None
    /\ attempts' = <<>>
    /\ slept' = <<>>
    /\ UNCHANGED <<thread_lock, added_sighting_count, sighting_calls, indexVars, pipeVars>>

\* MISP.__init__ (lines 30-34): the client before any call
RetryInit ==
    /\ RetryIdle
    /\ sighting_pc = "idle"
    /\ thread_lock = FALSE
    /\ added_sighting_count = 0
    /\ sighting_calls = 0

InitRetry ==
    /\ RetryInit
    /\ IndexIdle
    /\ PipeIdle

NextRetry ==
    \/ AddSighting
    \/ RetryInvoke
    \/ RetryReturn
    \/ RetryTryBackoff
    \/ RetryRaise
    \/ RetryExceptBackoff
    \/ RetryExceptGiveUp
    \/ RetryFallOff
    \/ AddSightingResume
    \/ AddSightingNext

SpecRetry == InitRetry /\ [][NextRetry]_vars

(***************************************************************************)
(* IndicatorsImporter.find_report_indicators  (indicators.py:124-139) and  *)
(* IndicatorsImporter.attribute_search  (indicators.py:104-121)            *)
(***************************************************************************)
\* lines 109-116: the dict comprehension over result.get("Attribute"); a later
\* attribute with the same value replaces an earlier one
CleanResult(result) ==
    [v \in {result[k].value : k \in DOMAIN result} |->
        LET last == CHOOSE k \in DOMAIN result :
                        /\ result[k].value = v
                        /\ \A j \in DOMAIN result : result[j].value = v => j <= k
        IN [uuid |-> <<result[last].event_uuid, v>>,
            event_uuid |-> result[last].event_uuid,
            timestamp |-> result[last].timestamp]]

\* line 135: non_report_ids = [fe.uuid for fe in self.feeds]
FamilyIdsOnly(fs) == {fs[k].uuid : k \in {j \in DOMAIN fs : fs[j].info \in FamilyTitles}}
NonReportIds(fs) == {fs[k].uuid : k \in DOMAIN fs}

\* lines 125-131: one attribute_search is submitted per indicator type
FindReportIndicators ==
    /\ index_pc = "idle"
    /\ retrieved_indicators' = <<>>
    /\ futures' = [t \in IndicatorTypes |-> [state |-> "pending", result |-> <<>>]]
    /\ merged' = {}
    /\ index_pc' = "merge"
    /\ UNCHANGED <<feeds, existing_indicators, retryVars, pipeVars>>

\* lines 104-121, run by a pool thread. A future is "pending", "done" with
\* the dict it returned, "done_none" when it returned None, or "raised".
\* The search gives a result, or raises
\* SSLError / ConnectionError (caught at line 118: a warning is logged and
\* clean_result stays None), or fails in a way line 118 does not catch (the
\* answer has no "Attribute" list, another exception).
AttributeSearch(t) ==
    /\ t \in DOMAIN futures
    /\ futures[t].state = "pending"
    /\ \/ \E result \in SearchResults :
            futures' = [futures EXCEPT ![t] =
                            [state |-> "done", result |-> CleanResult(result)]]
       \/ futures' = [futures EXCEPT ![t] = [state |-> "done_none", result |-> <<>>]]
       \/ futures' = [futures EXCEPT ![t] = [state |-> "raised", result |-> <<>>]]
    /\ UNCHANGED <<feeds, existing_indicators, retrieved_indicators, merged,
                   index_pc, retryVars, pipeVars>>

\* lines 132-133: retrieved_indicators.update(fut.result()). fut.result()
\* re-raises what the thread raised; dict.update(None) raises TypeError.
\* Either way the exception leaves find_report_indicators.
MergeResult(t) ==
    /\ index_pc = "merge"
    /\ t \in DOMAIN futures
    /\ t \notin merged
    /\ futures[t].state # "pending"
    /\ IF futures[t].state \in {"raised", "done_none"}
         THEN /\ index_pc' = "aborted"
              /\ UNCHANGED <<retrieved_indicators, merged>>
         ELSE /\ retrieved_indicators' = Update(retrieved_indicators, futures[t].result)
              /\ merged' = merged \cup {t}
              /\ UNCHANGED index_pc
    /\ UNCHANGED <<feeds, existing_indicators, futures, retryVars, pipeVars>>

\* lines 135-139: keep the entries whose event is not in self.feeds
FilterIndex ==
    /\ index_pc = "merge"
    /\ merged = DOMAIN futures
    /\ existing_indicators' =
          [v \in {w \in DOMAIN retrieved_indicators :
                    retrieved_indicators[w].event_uuid \notin NonReportIds(feeds)}
              |-> retrieved_indicators[v]]
    /\ index_pc' = "done"
    /\ UNCHANGED <<feeds, retrieved_indicators, futures, merged, retryVars, pipeVars>>

\* process_indicators lines 171-177: the feed and family events are in
\* self.feeds before find_report_indicators runs
InitIndex ==
    /\ RetryInit
    /\ feeds \in InitialFeeds
    /\ existing_indicators = <<>>
    /\ retrieved_indicators = <<>>
    /\ futures = <<>>
    /\ merged = {}
    /\ index_pc = "idle"
    /\ PipeIdle

NextIndex ==
    \/ FindReportIndicators
    \/ \E t \in IndicatorTypes : AttributeSearch(t)
    \/ \E t \in IndicatorTypes : MergeResult(t)
    \/ FilterIndex

SpecIndex == InitIndex /\ [][NextIndex]_vars

(***************************************************************************)
(* The indicator pipeline  (indicators.py:142-619)                         *)
(***************************************************************************)
cfgVars == <<settingsVars, do_sightings, IND_BATCH_SIZE, thread_count, time_send_request,
             preloaded, run, first_page>>

\* what no step of the main thread inside push_indicators touches
mainFrame == <<cfgVars, existing_indicators, retrieved_indicators, futures,
               merged, index_pc, retryVars>>

\* what no indicator_thread touches
workerFrame == <<cfgVars, existing_indicators, retrieved_indicators, futures,
                 merged, index_pc, retry_pc, i, response, retry_result, attempts,
                 slept, sighting_pc, thread_lock, sighting_calls, misp_server,
                 timestamp_file, main_pc, pages_fetched, indicators_count,
                 indicators, ind_batches, batch, flushers, unsaved>>

\* what no event_thread touches
flushFrame == <<cfgVars, existing_indicators, retrieved_indicators, futures,
                merged, index_pc, retryVars, dirty_feeds, skipped, batch_update,
                timestamp_file, main_pc, pages_fetched, indicators_count,
                indicators, ind_batches, batch, workers>>

\* evt = [e for e in self.feeds if cs_search == e.info]; evt[0] if evt else None
FindEvent(fs, title) ==
    IF \E k \in DOMAIN fs : fs[k].info = title
      THEN CHOOSE k \in DOMAIN fs :
              /\ fs[k].info = title
              /\ \A j \in DOMAIN fs : fs[j].info = title => k <= j
      ELSE NoEvent

\* the values of the attributes of an event:
\* {iv.value: iv.uuid for iv in event.attributes} if event else {}
NoAttributeList(fs, e) == {}
AttributeList(fs, e) ==
    IF e = NoEvent THEN {} ELSE {fs[e].attributes[k] : k \in DOMAIN fs[e].attributes}

\* only the batches of full size, a shorter rest of the page is left out
RECURSIVE SlicesOfFullSize(_, _)
SlicesOfFullSize(page, size) ==
    IF Len(page) < size THEN <<>>
    ELSE <<SubSeq(page, 1, size)>>
             \o SlicesOfFullSize(SubSeq(page, size + 1, Len(page)), size)

\* line 360: indicators[i:i+IND_BATCH_SIZE] for i in range(0, len, IND_BATCH_SIZE)
RECURSIVE Slices(_, _)
Slices(page, size) ==
    IF page = <<>> THEN <<>>
    ELSE IF Len(page) <= size THEN <<page>>
    ELSE <<SubSeq(page, 1, size)>> \o Slices(SubSeq(page, size + 1, Len(page)), size)

\* line 386: next(i.get('last_updated') for i in reversed(indicators)
\*                if i.get('last_updated') is not None)
\* as <<value>>, or <<>> when the generator is empty (StopIteration)
RECURSIVE FirstUpdated(_)
FirstUpdated(page) ==
    IF page = <<>> THEN <<>>
    ELSE IF Head(page).last_updated # 0 THEN <<Head(page).last_updated>>
    ELSE FirstUpdated(Tail(page))

LastUpdatedOfLastIndicator(page) ==
    IF page = <<>> THEN <<>> ELSE <<page[Len(page)].last_updated>>

RECURSIVE LastUpdated(_)
LastUpdated(page) ==
    IF page = <<>> THEN <<>>
    ELSE IF page[Len(page)].last_updated # 0 THEN <<page[Len(page)].last_updated>>
    ELSE LastUpdated(SubSeq(page, 1, Len(page) - 1))

\* an indicator_thread that the pool has not started yet
NewWorker ==
    [pc |-> "queued", event |-> NoEvent, mal_event |-> NoEvent,
     attribute_list |-> {}, mal_attribute_list |-> {},
     evt_dupe |-> FALSE, mal_dupe |-> FALSE,
     feed_result |-> 0, fam_result |-> 0, SIGHTED |-> FALSE,
     target |-> "evt", ind_obj |-> 0]

\* threads of the pool that run: a ThreadPoolExecutor(thread_count) runs at
\* most thread_count of the submitted calls at a time
Running(ws) == {k \in DOMAIN ws : ws[k].pc \notin {"queued", "done", "raised"}}

\* ---- the main thread ---------------------------------------------------

\* process_indicators line 185: the source feed yields its next page, and
\* push_indicators (lines 351-360) cuts it into batches
GetIndicators ==
    /\ main_pc = "fetch"
    /\ pages_fetched < MaxPages
    /\ \E page \in Pages(MaxIndicators) :
        /\ indicators_count + Len(page) <= MaxIndicators
        /\ indicators' = page
        /\ ind_batches' = Slices(page, IND_BATCH_SIZE)
    /\ pages_fetched' = pages_fetched + 1
    /\ unsaved' = {}
    /\ main_pc' = "batch"
    /\ UNCHANGED <<mainFrame, feeds, dirty_feeds, skipped, batch_update,
                   misp_server, timestamp_file, indicators_count, batch,
                   workers, flushers, lock_owner>>

\* process_indicators line 185: the source feed is exhausted
FeedExhausted ==
    /\ main_pc = "fetch"
    /\ main_pc' = "end"
    /\ UNCHANGED <<mainFrame, feeds, dirty_feeds, skipped, batch_update,
                   misp_server, timestamp_file, pages_fetched, indicators_count,
                   indicators, ind_batches, batch, workers, flushers,
                   lock_owner, unsaved>>

\* push_indicators lines 361-367 and process_indicator_batch lines 299-311:
\* the next batch is handed to a new pool, one indicator_thread per indicator
ProcessIndicatorBatch ==
    /\ main_pc = "batch"
    /\ ind_batches # <<>>
    /\ batch' = Head(ind_batches)
    /\ ind_batches' = Tail(ind_batches)
    /\ workers' = [k \in 1..Len(Head(ind_batches)) |-> NewWorker]
    /\ batch_update' = 0
    /\ lock_owner' = Unlocked
    /\ main_pc' = "workers"
    /\ UNCHANGED <<mainFrame, feeds, dirty_feeds, skipped, misp_server,
                   timestamp_file, pages_fetched, indicators_count, indicators,
                   flushers, unsaved>>

\* ---- indicator_thread / add_indicator_event -----------------------------

\* find_or_create_family_event asks for the Lock it is called under
RequestsLockAgain(pc) ==
    CASE pc = "family_lock" -> "family_lock"
      [] pc = "skip_lock" -> "skip"
      [] pc = "tag_lock" -> "tag"
      [] pc = "dirty_new_lock" -> "dirty_new"
      [] pc = "dirty_inc_lock" -> "dirty_inc"
      [] pc = "threat_lock" -> "threat"
      [] pc = "sight_count_lock" -> "sight_count"
      [] pc = "sight_skip_lock" -> "sight_skip"
      [] pc = "report_count_lock" -> "report_count"
      [] pc = "finish_lock" -> "finish"

\* positions at which a thread waits for the shared Lock ("with lock:"), and
\* the position it is at once it holds it
LockedPc(pc) ==
    CASE pc = "family_lock" -> "family"
      [] pc = "skip_lock" -> "skip"
      [] pc = "tag_lock" -> "tag"
      [] pc = "dirty_new_lock" -> "dirty_new"
      [] pc = "dirty_inc_lock" -> "dirty_inc"
      [] pc = "threat_lock" -> "threat"
      [] pc = "sight_count_lock" -> "sight_count"
      [] pc = "sight_skip_lock" -> "sight_skip"
      [] pc = "report_count_lock" -> "report_count"
      [] pc = "finish_lock" -> "finish"

LockPcs == {"family_lock", "skip_lock", "tag_lock", "dirty_new_lock",
            "dirty_inc_lock", "threat_lock", "sight_count_lock",
            "sight_skip_lock", "report_count_lock", "finish_lock"}

\* "with lock:" entered: Lock.acquire() returns once no thread holds the Lock
AcquireLock(k) ==
    /\ main_pc = "workers"
    /\ workers[k].pc \in LockPcs
    /\ lock_owner = Unlocked
    /\ lock_owner' = k
    /\ workers' = [workers EXCEPT ![k].pc = LockedPc(@)]
    /\ UNCHANGED <<workerFrame, feeds, dirty_feeds, skipped, batch_update,
                   added_sighting_count>>

\* indicator_thread lines 213-216 and add_indicator_event lines 513-517.
\* Without an 'indicator' value the thread falls through to line 228 and
\* raises UnboundLocalError; IndicatorType[...] raises KeyError for a type
\* that is no member. Otherwise the indicator type event is looked up.
KnownType(t) == t \in IndicatorTypes \cup ObjectTypes

IndicatorThread(k) ==
    /\ main_pc = "workers"
    /\ workers[k].pc = "queued"
    /\ Cardinality(Running(workers)) < thread_count
    /\ IF batch[k].indicator = None \/ ~KnownType(batch[k].type)
         THEN workers' = [workers EXCEPT ![k].pc = "raised"]
         ELSE workers' = [workers EXCEPT
                            ![k].pc = "family_lock",
                            ![k].event = FindEvent(feeds, TypeTitle(batch[k].type))]
    /\ UNCHANGED <<workerFrame, feeds, dirty_feeds, skipped, batch_update,
                   lock_owner, added_sighting_count>>

\* indicator_family.find_or_create_family_event, called under the Lock at
\* lines 519-527: the family event of the indicator is looked up by title
\* and, when self.feeds has none, created and appended
FindOrCreateFamilyEvent(k) ==
    /\ main_pc = "workers"
    /\ workers[k].pc = "family"
    /\ LET fam == batch[k].malware_family
           found == IF fam = None THEN NoEvent
                    ELSE FindEvent(feeds, FamilyTitle(fam))
       IN IF fam = None
            THEN /\ workers' = [workers EXCEPT ![k].pc = "check_evt"]
                 /\ UNCHANGED feeds
            ELSE IF found # NoEvent
            THEN /\ workers' = [workers EXCEPT ![k].pc = "check_evt",
                                               ![k].mal_event = found]
                 /\ UNCHANGED feeds
            ELSE /\ feeds' = Append(feeds, Event(FamilyTitle(fam), <<>>))
                 /\ workers' = [workers EXCEPT ![k].pc = "check_evt",
                                               ![k].mal_event = Len(feeds) + 1]
    /\ lock_owner' = Unlocked
    /\ UNCHANGED <<workerFrame, dirty_feeds, skipped, batch_update,
                   added_sighting_count>>

\* lines 529-532: attribute_list and evt_dupe
CheckEventAttributes(k) ==
    /\ main_pc = "workers"
    /\ workers[k].pc = "check_evt"
    /\ LET al == AttributeList(feeds, workers[k].event)
       IN workers' = [workers EXCEPT ![k].pc = "check_mal",
                                     ![k].attribute_list = al,
                                     ![k].evt_dupe = batch[k].indicator \in al]
    /\ UNCHANGED <<workerFrame, feeds, dirty_feeds, skipped, batch_update,
                   lock_owner, added_sighting_count>>

\* no indicator is skipped
NeverSkipped(sightings, mal_dupe, evt_dupe) == FALSE

\* line 539: if not do_sightings and (mal_dupe and evt_dupe)
Skipped(sightings, mal_dupe, evt_dupe) == ~sightings /\ mal_dupe /\ evt_dupe

\* lines 534-543: mal_attribute_list and mal_dupe, then the skip decision
CheckFamilyAttributes(k) ==
    /\ main_pc = "workers"
    /\ workers[k].pc = "check_mal"
    /\ LET ml == AttributeList(feeds, workers[k].mal_event)
           md == batch[k].indicator \in ml
       IN workers' = [workers EXCEPT
                        ![k].pc = IF Skipped(do_sightings, md, workers[k].evt_dupe)
                                    THEN "skip_lock" ELSE "evt",
                        ![k].mal_attribute_list = ml,
                        ![k].mal_dupe = md]
    /\ UNCHANGED <<workerFrame, feeds, dirty_feeds, skipped, batch_update,
                   lock_owner, added_sighting_count>>

\* lines 545-546: with lock: self.skipped += 1, then return 0, 0
SkipIndicator(k) ==
    /\ main_pc = "workers"
    /\ workers[k].pc = "skip"
    /\ skipped' = skipped + 1
    /\ lock_owner' = Unlocked
    /\ workers' = [workers EXCEPT ![k].pc = "finish_lock"]
    /\ UNCHANGED <<workerFrame, feeds, dirty_feeds, batch_update,
                   added_sighting_count>>

\* where add_indicator_event goes on after its work on one of the two events
\* (lines 556-567 for the indicator type event, lines 569-584 for the family
\* event)
AfterTarget(target) == IF target = "evt" THEN "mal" ELSE "report"

\* the event a thread is working on: event or mal_event
TargetEvent(w) == IF w.target = "evt" THEN w.event ELSE w.mal_event

\* int(seen_dict.get("last_seen", 0)): calculate_seen (lines 393-402) sets
\* last_seen only for a last_updated that is neither None nor 0
LastSeen(ind) == ind.last_updated

\* helper.gen_indicator(indicator, []): a MISPObject for the types of
\* ObjectTypes, a MISPAttribute for the others
GenIndicator(ind) == IF ind.type \in ObjectTypes THEN "MISPObject" ELSE "MISPAttribute"

\* lines 548-567: gen_indicator gives a MISPObject, which line 552 hands to
\* add_indicator_obj, or a MISPAttribute; for the indicator type event the
\* attribute is added when it is no duplicate, a duplicate is recorded as a
\* sighting when do_sightings is set
EventBranch(k) ==
    /\ main_pc = "workers"
    /\ workers[k].pc = "evt"
    /\ workers' = [workers EXCEPT
          ![k].target = "evt",
          ![k].pc = IF GenIndicator(batch[k]) = "MISPObject" THEN "obj"
                    ELSE IF workers[k].event = NoEvent THEN "mal"
                    ELSE IF ~workers[k].evt_dupe THEN "add"
                    ELSE IF do_sightings THEN "sight"
                    ELSE "mal"]
    /\ UNCHANGED <<workerFrame, feeds, dirty_feeds, skipped, batch_update,
                   lock_owner, added_sighting_count>>

\* add_indicator_obj lines 485-490: evt.add_object(obj) and
\* mal.add_object(obj) for the events there are, with no check of the
\* objects the events hold and without the Lock; self.dirty_feeds is not
\* touched. add_indicator_event then returns 0, 0 (line 605).
AddObject(fs, e, v) ==
    IF e = NoEvent THEN fs ELSE [fs EXCEPT ![e].objects = Append(@, v)]

AddIndicatorObj(k) ==
    /\ main_pc = "workers"
    /\ workers[k].pc = "obj"
    /\ feeds' = AddObject(AddObject(feeds, workers[k].event, batch[k].indicator),
                          workers[k].mal_event, batch[k].indicator)
    /\ workers' = [workers EXCEPT ![k].pc = "finish_lock"]
    /\ UNCHANGED <<workerFrame, dirty_feeds, skipped, batch_update, lock_owner,
                   added_sighting_count>>

\* the tags of process_attribute_tags are derived (lines 408-422); a
\* derivation that raises is caught at line 432 and logged
TagOutcomes == {"tagged", "tag_error"}

\* add_and_tag_attribute line 497: evt.add_attribute(type, value, **when),
\* then process_attribute_tags up to the Lock of line 414. When the tag
\* derivation raises, line 432 catches it, nothing is marked dirty, and
\* add_and_tag_attribute still returns 1.
AddAttribute(k) ==
    /\ main_pc = "workers"
    /\ workers[k].pc = "add"
    /\ LET w == workers[k]
           e == TargetEvent(w)
       IN /\ feeds' = [feeds EXCEPT ![e].attributes = Append(@, batch[k].indicator)]
          /\ \E tags \in TagOutcomes :
                workers' = [workers EXCEPT
                    ![k].pc = IF tags = "tagged" THEN "tag_lock"
                              ELSE AfterTarget(w.target),
                    ![k].feed_result = IF tags # "tagged" /\ w.target = "evt"
                                         THEN 1 ELSE @,
                    ![k].fam_result = IF tags # "tagged" /\ w.target = "mal"
                                        THEN 1 ELSE @]
    /\ UNCHANGED <<workerFrame, dirty_feeds, skipped, batch_update, lock_owner,
                   added_sighting_count>>

\* process_attribute_tags lines 414-419: tag_attribute_family under the Lock
TagAttributeFamily(k) ==
    /\ main_pc = "workers"
    /\ workers[k].pc = "tag"
    /\ lock_owner' = Unlocked
    /\ workers' = [workers EXCEPT ![k].pc = "dirty_read"]
    /\ UNCHANGED <<workerFrame, feeds, dirty_feeds, skipped, batch_update,
                   added_sighting_count>>

\* lines 420-425: the tags are added to the attribute, then
\* "if evt.info not in self.dirty_feeds" is evaluated, outside the Lock
ReadDirtyFeeds(k) ==
    /\ main_pc = "workers"
    /\ workers[k].pc = "dirty_read"
    /\ LET title == feeds[TargetEvent(workers[k])].info
       IN workers' = [workers EXCEPT
              ![k].pc = IF title \notin DOMAIN dirty_feeds
                          THEN "dirty_new_lock" ELSE "dirty_inc_lock"]
    /\ UNCHANGED <<workerFrame, feeds, dirty_feeds, skipped, batch_update,
                   lock_owner, added_sighting_count>>

\* lines 426-430, under the Lock: self.dirty_feeds.update({evt.info: 1}) or
\* self.dirty_feeds[evt.info] += 1; add_and_tag_attribute then returns 1
MarkDirty(k) ==
    /\ main_pc = "workers"
    /\ workers[k].pc \in {"dirty_new", "dirty_inc"}
    /\ LET w == workers[k]
           title == feeds[TargetEvent(w)].info
       IN /\ dirty_feeds' =
                IF w.pc = "dirty_new"
                  THEN Update(dirty_feeds, [t \in {title} |-> 1])
                  ELSE [dirty_feeds EXCEPT ![title] = @ + 1]
          /\ workers' = [workers EXCEPT
                ![k].pc = AfterTarget(w.target),
                ![k].feed_result = IF w.target = "evt" THEN 1 ELSE @,
                ![k].fam_result = IF w.target = "mal" THEN 1 ELSE @]
    /\ lock_owner' = Unlocked
    /\ UNCHANGED <<workerFrame, feeds, skipped, batch_update,
                   added_sighting_count>>

\* the timestamp misp.get_attribute reports for the stored attribute; 0 when
\* the answer carries no "Attribute" (ind_obj.get("Attribute", {}))
StoredTimestamps == {0, 1, 2}

\* what MISP.add_sighting does with one sighting: "ok" _retry returned a
\* response without errors, "error" it returned a response with errors (404),
\* "none" _retry used up its attempts and returned None, so that line 50 of
\* threaded_misp.py raises TypeError
SightingOutcomes == {"ok", "error", "none"}

\* a sighting is due whenever the two timestamps differ
SightingDiffers(last_seen, stored) == last_seen # stored

\* add_sighting_to_attribute line 460: a sighting is due when the indicator's
\* last_seen is newer than the stored timestamp
SightingDue(last_seen, stored) == last_seen > stored

\* add_sighting_to_attribute lines 456-474: the stored attribute is fetched
\* and compared. A fetch that raises is caught at line 475. In every case
\* add_indicator_event sets SIGHTED afterwards (lines 567 and 584).
GetAttribute(k) ==
    /\ main_pc = "workers"
    /\ workers[k].pc = "sight"
    /\ \/ \E stored \in StoredTimestamps :
            workers' = [workers EXCEPT
                ![k].pc = IF SightingDue(LastSeen(batch[k]), stored)
                            THEN "sight_send" ELSE "sight_skip_lock",
                ![k].ind_obj = stored,
                ![k].SIGHTED = TRUE]
       \/ workers' = [workers EXCEPT ![k].pc = AfterTarget(workers[k].target),
                                     ![k].SIGHTED = TRUE]
    /\ UNCHANGED <<workerFrame, feeds, dirty_feeds, skipped, batch_update,
                   lock_owner, added_sighting_count>>

\* add_sighting_to_attribute line 469: self.misp.add_sighting(sight, lock=tlock).
\* The TypeError of an exhausted _retry is caught at line 475.
SendSighting(k) ==
    /\ main_pc = "workers"
    /\ workers[k].pc = "sight_send"
    /\ \E out \in SightingOutcomes :
        workers' = [workers EXCEPT
            ![k].ind_obj = 0,
            ![k].pc = IF out = "ok" THEN "sight_count_lock"
                      ELSE AfterTarget(workers[k].target)]
    /\ UNCHANGED <<workerFrame, feeds, dirty_feeds, skipped, batch_update,
                   lock_owner, added_sighting_count>>

\* threaded_misp.py lines 51-55, under the Lock handed to add_sighting:
\* self.added_sighting_count += 1
CountSighting(k) ==
    /\ main_pc = "workers"
    /\ workers[k].pc \in {"sight_count", "report_count"}
    /\ added_sighting_count' = added_sighting_count + 1
    /\ lock_owner' = Unlocked
    /\ workers' = [workers EXCEPT
          ![k].pc = IF workers[k].pc = "sight_count"
                      THEN AfterTarget(workers[k].target) ELSE "finish_lock"]
    /\ UNCHANGED <<workerFrame, feeds, dirty_feeds, skipped, batch_update>>

\* add_sighting_to_attribute lines 471-474: already present, with tlock:
\* self.skipped += 1
SkipSighting(k) ==
    /\ main_pc = "workers"
    /\ workers[k].pc = "sight_skip"
    /\ skipped' = skipped + 1
    /\ lock_owner' = Unlocked
    /\ workers' = [workers EXCEPT ![k].pc = AfterTarget(workers[k].target),
                                  ![k].ind_obj = 0]
    /\ UNCHANGED <<workerFrame, feeds, dirty_feeds, batch_update,
                   added_sighting_count>>

\* line 569: if mal_event: the Lock of line 570 is requested
FamilyBranch(k) ==
    /\ main_pc = "workers"
    /\ workers[k].pc = "mal"
    /\ workers' = [workers EXCEPT
          ![k].pc = IF workers[k].mal_event = NoEvent THEN "report"
                    ELSE "threat_lock"]
    /\ UNCHANGED <<workerFrame, feeds, dirty_feeds, skipped, batch_update,
                   lock_owner, added_sighting_count>>

\* the family event takes a sighting whatever the indicator type event holds
InAnyCase(value, attribute_list) == TRUE

\* line 579: indicator_value not in attribute_list ("Prevent dupe sightings")
NotInTypeEvent(value, attribute_list) == value \notin attribute_list

\* the threat level that the malicious_confidence of an indicator stands for:
\* the feed gives 'b' with a high confidence and the others with a low one
MaliciousConfidence(ind) == IF ind.indicator = "b" THEN ThreatHigh ELSE ThreatLow

\* indicator_family.check_and_set_threat_level: the event takes the threat
\* level of the indicator when that is the higher one, and is never lowered
check_and_set_threat_level(ind, mal_event) ==
    IF MaliciousConfidence(ind) < mal_event.threat_level_id
      THEN [mal_event EXCEPT !.threat_level_id = MaliciousConfidence(ind)]
      ELSE mal_event

\* lines 570-584: check_and_set_threat_level under the Lock, then the
\* attribute is added to the family event when it is no duplicate there; a
\* duplicate is recorded as a sighting when do_sightings is set and the value
\* was not in the indicator type event either
CheckAndSetThreatLevel(k) ==
    /\ main_pc = "workers"
    /\ workers[k].pc = "threat"
    /\ lock_owner' = Unlocked
    /\ feeds' = [feeds EXCEPT ![workers[k].mal_event] =
                    check_and_set_threat_level(batch[k], @)]
    /\ workers' = [workers EXCEPT
          ![k].target = "mal",
          ![k].pc = IF ~workers[k].mal_dupe THEN "add"
                    ELSE IF NotInTypeEvent(batch[k].indicator, workers[k].attribute_list)
                            /\ do_sightings THEN "sight"
                    ELSE "report"]
    /\ UNCHANGED <<workerFrame, dirty_feeds, skipped, batch_update,
                   added_sighting_count>>

\* lines 586-593 and add_report_sighting lines 440-441: last is the
\* indicator's last_seen, ind_timestamp is
\* int(indicator.get("Attribute", {}).get("timestamp", 0)), which is 0 for an
\* indicator of the source feed
ReportBranch(k) ==
    /\ main_pc = "workers"
    /\ workers[k].pc = "report"
    /\ workers' = [workers EXCEPT
          ![k].pc = IF /\ ~workers[k].SIGHTED
                       /\ batch[k].indicator \in DOMAIN existing_indicators
                       /\ do_sightings
                       /\ LastSeen(batch[k]) # 0
                    THEN "report_send" ELSE "finish_lock"]
    /\ UNCHANGED <<workerFrame, feeds, dirty_feeds, skipped, batch_update,
                   lock_owner, added_sighting_count>>

\* add_report_sighting line 450: self.misp.add_sighting(sght, lock=tlock),
\* outside any try block: the TypeError of an exhausted _retry leaves
\* add_indicator_event and the thread
SendReportSighting(k) ==
    /\ main_pc = "workers"
    /\ workers[k].pc = "report_send"
    /\ \E out \in SightingOutcomes :
        workers' = [workers EXCEPT
            ![k].pc = CASE out = "ok" -> "report_count_lock"
                        [] out = "error" -> "finish_lock"
                        [] out = "none" -> "raised"]
    /\ UNCHANGED <<workerFrame, feeds, dirty_feeds, skipped, batch_update,
                   lock_owner, added_sighting_count>>

\* indicator_thread lines 217-228: with batch_lock: self.batch_update += 1,
\* then {"feed": feed_return, "fam": fam_return} is returned; the other
\* locals of the thread are gone
FinishIndicator(k) ==
    /\ main_pc = "workers"
    /\ workers[k].pc = "finish"
    /\ batch_update' = batch_update + 1
    /\ lock_owner' = Unlocked
    /\ workers' = [workers EXCEPT
          ![k] = [NewWorker EXCEPT !.pc = "done",
                                   !.feed_result = workers[k].feed_result,
                                   !.fam_result = workers[k].fam_result]]
    /\ UNCHANGED <<workerFrame, feeds, dirty_feeds, skipped,
                   added_sighting_count>>

\* ---- clean_laundry / event_thread ---------------------------------------

\* the members of a set of positions, in ascending order
RECURSIVE Ascending(_)
Ascending(S) ==
    IF S = {} THEN <<>>
    ELSE LET m == CHOOSE x \in S : \A y \in S : x <= y
         IN <<m>> \o Ascending(S \ {m})

\* get_laundry lines 201-208: one entry per title that is in self.dirty_feeds;
\* of several events with one title the last one of self.feeds is kept
GetLaundry(fs, df) ==
    LET ps == Ascending({k \in DOMAIN fs :
                    /\ fs[k].info \in DOMAIN df
                    /\ \A j \in DOMAIN fs : fs[j].info = fs[k].info => j <= k})
    IN [n \in DOMAIN ps |->
            [title |-> fs[ps[n]].info, object |-> fs[ps[n]],
             count |-> df[fs[ps[n]].info]]]

\* what MISP stores of an event, and the MISPEvent built from what it stores
\* (update_event at line 238, refreshed.from_dict at line 275)
Stored(evt) ==
    [attributes |-> evt.attributes, objects |-> evt.objects,
     threat_level_id |-> evt.threat_level_id]

Loaded(title, stored) ==
    [Event(title, stored.attributes) EXCEPT
        !.objects = stored.objects, !.threat_level_id = stored.threat_level_id]

\* an event_thread that the pool has not started yet (lines 233-235)
NewFlusher(entry) ==
    [pc |-> "queued", title |-> entry.title, evt |-> entry.object,
     ind_count |-> entry.count, tries |-> 1, successful |-> FALSE, pos |-> 0,
     raised_with |-> None]

\* what self.misp.update_event(evt) can raise
SaveFailures == {"SSLError", "ConnectionError", "MISPServerError", "ReadTimeout"}

\* line 240: except (SSLError, ConnectionError, MISPServerError)
CaughtNoServerError(exc) == exc \in {"SSLError", "ConnectionError"}
Caught(exc) == exc \in {"SSLError", "ConnectionError", "MISPServerError"}

\* line 236: while tries < 4 and not successful
\* a fourth attempt is allowed
KeepTryingLonger(tries, successful) == tries < 5 /\ ~successful

KeepTrying(tries, successful) == tries < 4 /\ ~successful

\* the main thread goes on without waiting for the pool
NotJoined(pool) == TRUE

\* process_indicator_batch lines 307-321 and clean_laundry lines 340-347: the
\* main thread asks every future for its result, and the with block of the
\* executor is left only when every thread of the pool has returned or raised
Joined(pool) == \A k \in DOMAIN pool : pool[k].pc \in {"done", "raised"}

\* process_indicator_batch lines 312-323 and clean_laundry lines 328-345:
\* the results of the indicator threads are collected; fut.result() re-raises
\* what a thread raised, which leaves push_indicators and the run. Otherwise
\* the dirty events are handed to a new pool, one event_thread per event.
CleanLaundry ==
    /\ main_pc = "workers"
    /\ Joined(workers)
    /\ IF \E k \in DOMAIN workers : workers[k].pc = "raised"
         THEN /\ main_pc' = "aborted"
              /\ UNCHANGED <<flushers, lock_owner, workers>>
         ELSE /\ main_pc' = "flush"
              /\ LET dirty == GetLaundry(feeds, dirty_feeds)
                 IN flushers' = [n \in DOMAIN dirty |-> NewFlusher(dirty[n])]
              /\ workers' = <<>>
              /\ lock_owner' = Unlocked
    /\ UNCHANGED <<mainFrame, feeds, dirty_feeds, skipped, batch_update,
                   misp_server, timestamp_file, pages_fetched, indicators_count,
                   indicators, ind_batches, batch, unsaved>>

\* event_thread lines 236-263 and 290: one pass of the save loop.
\* update_event stores the event, or raises. An exception of line 240 is
\* logged and the loop goes on; any other exception leaves the thread. After
\* a save that took longer than refresh_tolerance the memory copy is
\* refreshed. When the loop is left the thread returns evt.info (line 294):
\* of its locals the model keeps title and successful.
UpdateEvent(n) ==
    /\ main_pc = "flush"
    /\ flushers[n].pc \in {"queued", "save"}
    /\ flushers[n].pc = "queued" => Cardinality(Running(flushers)) < thread_count
    /\ LET f == flushers[n]
       IN \/ \E slow \in BOOLEAN :
                /\ misp_server' = Update(misp_server,
                                    [u \in {f.evt.uuid} |-> Stored(f.evt)])
                /\ unsaved' = unsaved \ {f.title}
                /\ flushers' = [flushers EXCEPT
                        ![n].successful = TRUE,
                        ![n].tries = IF slow THEN @ ELSE 0,
                        ![n].pc = IF slow THEN "refresh" ELSE "done"]
          \/ \E exc \in SaveFailures :
                /\ UNCHANGED misp_server
                /\ IF Caught(exc)
                     THEN /\ flushers' = [flushers EXCEPT
                                ![n].tries = IF KeepTrying(f.tries + 1, FALSE)
                                               THEN @ + 1 ELSE 0,
                                ![n].pc = IF KeepTrying(f.tries + 1, FALSE)
                                            THEN "save" ELSE "done"]
                          /\ unsaved' = IF KeepTrying(f.tries + 1, FALSE)
                                          THEN unsaved ELSE unsaved \cup {f.title}
                     ELSE /\ flushers' = [flushers EXCEPT ![n].pc = "raised",
                                                          ![n].raised_with = exc]
                          /\ unsaved' = unsaved \cup {f.title}
    /\ UNCHANGED <<flushFrame, feeds, lock_owner>>

\* what self.misp.search(uuid=evt.uuid) gives the refresh: the one event,
\* nothing, or an exception (caught at line 283)
RefreshOutcomes == {"one", "empty", "raise"}

\* lines 264-275: pos is the position of the first event of self.feeds with
\* the title (len(self.feeds) when there is none), computed outside the Lock;
\* then the event is fetched from MISP
LocateEvent(n) ==
    /\ main_pc = "flush"
    /\ flushers[n].pc = "refresh"
    /\ LET found == FindEvent(feeds, flushers[n].title)
           p == IF found = NoEvent THEN Len(feeds) + 1 ELSE found
       IN \E out \in RefreshOutcomes :
            flushers' = [flushers EXCEPT
                ![n].pos = IF out = "one" THEN p ELSE @,
                ![n].tries = IF out = "one" THEN @ ELSE 0,
                ![n].pc = IF out = "one" THEN "refresh_lock" ELSE "done"]
    /\ UNCHANGED <<flushFrame, feeds, misp_server, lock_owner, unsaved>>

\* line 276: with lock
AcquireRefreshLock(n) ==
    /\ main_pc = "flush"
    /\ flushers[n].pc = "refresh_lock"
    /\ lock_owner = Unlocked
    /\ lock_owner' = n
    /\ flushers' = [flushers EXCEPT ![n].pc = "refresh_swap"]
    /\ UNCHANGED <<flushFrame, feeds, misp_server, unsaved>>

\* self.feeds without its element at position p (list.pop(p))
Pop(fs, p) == [k \in 1..(Len(fs) - 1) |-> IF k < p THEN fs[k] ELSE fs[k + 1]]

\* lines 277-278 under the Lock: self.feeds.pop(pos), then
\* self.feeds.append(refreshed). pop raises IndexError for a pos that is out
\* of range; line 283 catches it. Line 290 ends the pass.
RefreshFeeds(n) ==
    /\ main_pc = "flush"
    /\ flushers[n].pc = "refresh_swap"
    /\ LET f == flushers[n]
       IN IF f.pos <= Len(feeds)
            THEN feeds' = Append(Pop(feeds, f.pos),
                                 Loaded(f.title, misp_server[f.evt.uuid]))
            ELSE UNCHANGED feeds
    /\ lock_owner' = Unlocked
    /\ flushers' = [flushers EXCEPT ![n].pc = "done", ![n].tries = 0,
                                    ![n].pos = 0]
    /\ UNCHANGED <<flushFrame, misp_server, unsaved>>

\* dict.pop for every key of a set
Without(d, keys) == [t \in DOMAIN d \ keys |-> d[t]]

\* clean_laundry lines 346-349 and push_indicators lines 371-372: every title
\* an event_thread returned is popped from self.dirty_feeds, and the pool
\* is gone; fut.result() re-raises what a thread raised
PopCleaned ==
    /\ main_pc = "flush"
    /\ Joined(flushers)
    /\ IF \E n \in DOMAIN flushers : flushers[n].pc = "raised"
         THEN /\ main_pc' = "aborted"
              /\ UNCHANGED <<dirty_feeds, flushers>>
         ELSE /\ main_pc' = "batch"
              /\ dirty_feeds' = Without(dirty_feeds,
                                  {flushers[n].title : n \in DOMAIN flushers})
              /\ flushers' = <<>>
    /\ UNCHANGED <<mainFrame, feeds, skipped, batch_update, misp_server,
                   timestamp_file, pages_fetched, indicators_count, indicators,
                   ind_batches, batch, workers, lock_owner, unsaved>>

\* a page can be left after any batch
LoopLeftEarly == TRUE

\* push_indicators lines 361 and 383: the loop over ind_batches is over, every
\* batch of the page has been handed out
LoopOver == ind_batches = <<>>

\* push_indicators lines 386-389 and process_indicators line 187: after the
\* last batch the newest last_updated of the page is written to the timestamp
\* file and push_indicators returns; next() raises StopIteration when no
\* indicator of the page has one
NoteTimestamp ==
    /\ main_pc = "batch"
    /\ LoopOver
    /\ IF LastUpdated(indicators) = <<>>
         THEN /\ main_pc' = "aborted"
              /\ UNCHANGED <<timestamp_file, indicators_count, indicators, batch>>
         ELSE /\ main_pc' = "fetch"
              /\ timestamp_file' = LastUpdated(indicators)
              /\ indicators_count' = indicators_count + Len(indicators)
              /\ indicators' = <<>>
              /\ batch' = <<>>
    /\ UNCHANGED <<mainFrame, feeds, dirty_feeds, skipped, batch_update,
                   misp_server, pages_fetched, ind_batches, workers, flushers,
                   lock_owner, unsaved>>

\* process_indicators lines 189-190: a run without indicators notes the time
\* the request was sent
NoteRequestTime ==
    /\ main_pc = "end"
    /\ main_pc' = "done"
    /\ timestamp_file' = IF indicators_count = 0 THEN <<time_send_request>>
                         ELSE timestamp_file
    /\ UNCHANGED <<mainFrame, feeds, dirty_feeds, skipped, batch_update,
                   misp_server, pages_fetched, indicators_count, indicators,
                   ind_batches, batch, workers, flushers, lock_owner, unsaved>>

\* ---- the run -------------------------------------------------------------

\* self.existing_indicators as find_report_indicators can leave it: empty, or
\* with an entry for a value that a report event holds (the index is read
\* only when do_sightings is set, line 586)
ExistingIndicators ==
    { <<>>,
      [v \in {"a", "b"} |-> [uuid |-> <<ReportUuid, v>>, event_uuid |-> ReportUuid,
                        timestamp |-> 1]] }

\* MISP stores the events of self.feeds as they were retrieved
StoredEvents(fs) ==
    [u \in {fs[k].uuid : k \in DOMAIN fs} |->
        Stored(fs[CHOOSE k \in DOMAIN fs : fs[k].uuid = u])]

\* process_indicators lines 142-184: the settings are read, the feed and
\* family events are in self.feeds, the index of report indicators is built,
\* and the loop over the pages of the source feed is about to start
Init ==
    /\ RetryInit
    /\ feeds \in InitialFeeds
    /\ existing_indicators \in ExistingIndicators
    /\ retrieved_indicators = <<>>
    /\ futures = <<>>
    /\ merged = {}
    /\ index_pc = "done"
    /\ SettingsIdle
    /\ do_sightings \in BOOLEAN
    /\ existing_indicators # <<>> => do_sightings
    /\ IND_BATCH_SIZE \in 1..MaxBatchSize
    /\ thread_count = MaxThreads
    /\ dirty_feeds = <<>>
    /\ skipped = 0
    /\ batch_update = 0
    /\ misp_server = StoredEvents(feeds)
    /\ timestamp_file = <<>>
    /\ time_send_request \in RequestTimes
    /\ main_pc = "fetch"
    /\ pages_fetched = 0
    /\ indicators_count = 0
    /\ indicators = <<>>
    /\ ind_batches = <<>>
    /\ batch = <<>>
    /\ workers = <<>>
    /\ flushers = <<>>
    /\ lock_owner = Unlocked
    /\ unsaved = {}
    /\ preloaded = misp_server
    /\ run = 1
    /\ first_page = <<>>

Next ==
    \/ GetIndicators
    \/ FeedExhausted
    \/ ProcessIndicatorBatch
    \/ \E k \in DOMAIN workers : AcquireLock(k)
    \/ \E k \in DOMAIN workers : IndicatorThread(k)
    \/ \E k \in DOMAIN workers : FindOrCreateFamilyEvent(k)
    \/ \E k \in DOMAIN workers : CheckEventAttributes(k)
    \/ \E k \in DOMAIN workers : CheckFamilyAttributes(k)
    \/ \E k \in DOMAIN workers : SkipIndicator(k)
    \/ \E k \in DOMAIN workers : EventBranch(k)
    \/ \E k \in DOMAIN workers : AddIndicatorObj(k)
    \/ \E k \in DOMAIN workers : AddAttribute(k)
    \/ \E k \in DOMAIN workers : TagAttributeFamily(k)
    \/ \E k \in DOMAIN workers : ReadDirtyFeeds(k)
    \/ \E k \in DOMAIN workers : MarkDirty(k)
    \/ \E k \in DOMAIN workers : GetAttribute(k)
    \/ \E k \in DOMAIN workers : SendSighting(k)
    \/ \E k \in DOMAIN workers : CountSighting(k)
    \/ \E k \in DOMAIN workers : SkipSighting(k)
    \/ \E k \in DOMAIN workers : FamilyBranch(k)
    \/ \E k \in DOMAIN workers : CheckAndSetThreatLevel(k)
    \/ \E k \in DOMAIN workers : ReportBranch(k)
    \/ \E k \in DOMAIN workers : SendReportSighting(k)
    \/ \E k \in DOMAIN workers : FinishIndicator(k)
    \/ CleanLaundry
    \/ \E n \in DOMAIN flushers : UpdateEvent(n)
    \/ \E n \in DOMAIN flushers : LocateEvent(n)
    \/ \E n \in DOMAIN flushers : AcquireRefreshLock(n)
    \/ \E n \in DOMAIN flushers : RefreshFeeds(n)
    \/ PopCleaned
    \/ NoteTimestamp
    \/ NoteRequestTime

Spec == Init /\ [][Next]_vars

(***************************************************************************)
(* The run under fair scheduling                                           *)
(***************************************************************************)
\* the steps of the main thread (process_indicators, push_indicators)
MainThread ==
    \/ GetIndicators
    \/ FeedExhausted
    \/ ProcessIndicatorBatch
    \/ CleanLaundry
    \/ PopCleaned
    \/ NoteTimestamp
    \/ NoteRequestTime

\* the steps of the k-th indicator_thread of the pool of a batch
IndicatorThreadSteps(k) ==
    /\ k \in DOMAIN workers
    /\ \/ AcquireLock(k)
       \/ IndicatorThread(k)
       \/ FindOrCreateFamilyEvent(k)
       \/ CheckEventAttributes(k)
       \/ CheckFamilyAttributes(k)
       \/ SkipIndicator(k)
       \/ EventBranch(k)
       \/ AddIndicatorObj(k)
       \/ AddAttribute(k)
       \/ TagAttributeFamily(k)
       \/ ReadDirtyFeeds(k)
       \/ MarkDirty(k)
       \/ GetAttribute(k)
       \/ SendSighting(k)
       \/ CountSighting(k)
       \/ SkipSighting(k)
       \/ FamilyBranch(k)
       \/ CheckAndSetThreatLevel(k)
       \/ ReportBranch(k)
       \/ SendReportSighting(k)
       \/ FinishIndicator(k)

\* the steps of the n-th event_thread of the pool of a flush
EventThreadSteps(n) ==
    /\ n \in DOMAIN flushers
    /\ \/ UpdateEvent(n)
       \/ LocateEvent(n)
       \/ AcquireRefreshLock(n)
       \/ RefreshFeeds(n)

\* a flush has at most one event_thread per event of self.feeds: the three
\* indicator type events and one family event per indicator
MaxEventThreads == 3 + MaxIndicators

\* every thread that can take a step is scheduled in the end: the main
\* thread, each thread of the pool of a batch, each thread of the pool of a
\* flush. Nothing is assumed on which of the waiting threads gets the Lock.
FairScheduling ==
    /\ WF_vars(MainThread)
    /\ \A k \in 1..MaxBatchSize : WF_vars(IndicatorThreadSteps(k))
    /\ \A n \in 1..MaxEventThreads : WF_vars(EventThreadSteps(n))

\* a run in which MISP holds the family event, every batch is of the largest
\* size, so that the threads of a pool contend for the Lock, and sightings
\* are logged with an index of report indicators or are not logged at all
InitFair ==
    /\ Init
    /\ IND_BATCH_SIZE = MaxBatchSize
    /\ feeds = <<Event(TypeTitle("domain"), <<>>),
                 Event(TypeTitle("ip_address"), <<>>),
                 Event(TypeTitle("password"), <<>>),
                 Event(FamilyTitle("F"), <<"a">>)>>
    /\ do_sightings <=> existing_indicators # <<>>

SpecFair == InitFair /\ [][Next]_vars /\ FairScheduling

(***************************************************************************)
(* The program run twice on one page of the source feed                    *)
(***************************************************************************)
\* retrieve_or_create_feed_events and retrieve_family_events at the start of
\* a run (process_indicators lines 172-177): one event per indicator type,
\* then the family events MISP holds, each as MISP stores it
NoStored ==
    [attributes |-> <<>>, objects |-> <<>>, threat_level_id |-> ThreatUndefined]

Retrieved(server, title) ==
    Loaded(title, IF EventUuid(title) \in DOMAIN server
                    THEN server[EventUuid(title)] ELSE NoStored)

RetrieveFeeds(server) ==
    <<Retrieved(server, TypeTitle("domain")),
      Retrieved(server, TypeTitle("ip_address")),
      Retrieved(server, TypeTitle("password"))>>
    \o (IF EventUuid(FamilyTitle("F")) \in DOMAIN server
          THEN <<Retrieved(server, FamilyTitle("F"))>> ELSE <<>>)

\* the first run starts with the page it will push: process_indicators up to
\* push_indicators line 360
FirstRun ==
    /\ run = 1
    /\ main_pc = "fetch"
    /\ pages_fetched = 0
    /\ \E page \in Pages(MaxRerunPage) :
        /\ page # <<>>
        /\ indicators' = page
        /\ first_page' = page
        /\ ind_batches' = Slices(page, IND_BATCH_SIZE)
    /\ pages_fetched' = 1
    /\ main_pc' = "batch"
    /\ UNCHANGED <<retryVars, indexVars, settingsVars, do_sightings,
                   IND_BATCH_SIZE,
                   thread_count, dirty_feeds, skipped, batch_update,
                   misp_server, timestamp_file, time_send_request,
                   indicators_count, batch, workers, flushers, lock_owner,
                   unsaved, preloaded, run>>

\* the program is run again after a first run in which no save failed, and
\* the source feed returns the same page: __init__ (lines 96-101), then
\* process_indicators up to push_indicators line 360. MISP holds what the
\* first run saved; the report events, and with them
\* self.existing_indicators, are as before.
SecondRun ==
    /\ run = 1
    /\ main_pc = "done"
    /\ first_page # <<>>
    /\ unsaved = {}
    /\ run' = 2
    /\ feeds' = RetrieveFeeds(misp_server)
    /\ preloaded' = misp_server
    /\ dirty_feeds' = <<>>
    /\ skipped' = 0
    /\ batch_update' = 0
    /\ added_sighting_count' = 0
    /\ indicators_count' = 0
    /\ indicators' = first_page
    /\ ind_batches' = Slices(first_page, IND_BATCH_SIZE)
    /\ batch' = <<>>
    /\ workers' = <<>>
    /\ flushers' = <<>>
    /\ lock_owner' = Unlocked
    /\ main_pc' = "batch"
    /\ UNCHANGED <<retry_pc, i, response, retry_result, attempts, slept,
                   sighting_pc, thread_lock, sighting_calls,
                   existing_indicators, retrieved_indicators, futures, merged,
                   index_pc, settingsVars, do_sightings, IND_BATCH_SIZE,
                   thread_count,
                   misp_server, timestamp_file, time_send_request,
                   pages_fetched, unsaved, first_page>>

NextRerun ==
    \/ FirstRun
    \/ SecondRun
    \/ FeedExhausted
    \/ ProcessIndicatorBatch
    \/ \E k \in DOMAIN workers : AcquireLock(k)
    \/ \E k \in DOMAIN workers : IndicatorThread(k)
    \/ \E k \in DOMAIN workers : FindOrCreateFamilyEvent(k)
    \/ \E k \in DOMAIN workers : CheckEventAttributes(k)
    \/ \E k \in DOMAIN workers : CheckFamilyAttributes(k)
    \/ \E k \in DOMAIN workers : SkipIndicator(k)
    \/ \E k \in DOMAIN workers : EventBranch(k)
    \/ \E k \in DOMAIN workers : AddIndicatorObj(k)
    \/ \E k \in DOMAIN workers : AddAttribute(k)
    \/ \E k \in DOMAIN workers : TagAttributeFamily(k)
    \/ \E k \in DOMAIN workers : ReadDirtyFeeds(k)
    \/ \E k \in DOMAIN workers : MarkDirty(k)
    \/ \E k \in DOMAIN workers : GetAttribute(k)
    \/ \E k \in DOMAIN workers : SendSighting(k)
    \/ \E k \in DOMAIN workers : CountSighting(k)
    \/ \E k \in DOMAIN workers : SkipSighting(k)
    \/ \E k \in DOMAIN workers : FamilyBranch(k)
    \/ \E k \in DOMAIN workers : CheckAndSetThreatLevel(k)
    \/ \E k \in DOMAIN workers : ReportBranch(k)
    \/ \E k \in DOMAIN workers : SendReportSighting(k)
    \/ \E k \in DOMAIN workers : FinishIndicator(k)
    \/ CleanLaundry
    \/ \E n \in DOMAIN flushers : UpdateEvent(n)
    \/ \E n \in DOMAIN flushers : LocateEvent(n)
    \/ \E n \in DOMAIN flushers : AcquireRefreshLock(n)
    \/ \E n \in DOMAIN flushers : RefreshFeeds(n)
    \/ PopCleaned
    \/ NoteTimestamp
    \/ NoteRequestTime

SpecRerun == Init /\ [][NextRerun]_vars

(***************************************************************************)
(* A page of three batches  (indicators.py:355-389)                        *)
(***************************************************************************)
\* a page of three indicators of one malware family, pushed in batches of one
\* with sightings off
ThreeBatchPage ==
    <<Ind("a", "domain", "F", 2), Ind("b", "domain", "F", 0),
      Ind("c", "domain", "F", 1)>>

\* push_indicators at line 361, with the page sliced: MISP holds the three
\* indicator type events, empty, and no family event
InitThreeBatches ==
    /\ RetryInit
    /\ feeds = <<Event(TypeTitle("domain"), <<>>),
                 Event(TypeTitle("ip_address"), <<>>),
                 Event(TypeTitle("password"), <<>>)>>
    /\ existing_indicators = <<>>
    /\ retrieved_indicators = <<>>
    /\ futures = <<>>
    /\ merged = {}
    /\ index_pc = "done"
    /\ SettingsIdle
    /\ do_sightings = FALSE
    /\ IND_BATCH_SIZE = 1
    /\ thread_count = MaxThreads
    /\ dirty_feeds = <<>>
    /\ skipped = 0
    /\ batch_update = 0
    /\ misp_server = StoredEvents(feeds)
    /\ timestamp_file = <<>>
    /\ time_send_request \in RequestTimes
    /\ main_pc = "batch"
    /\ pages_fetched = 1
    /\ indicators_count = 0
    /\ indicators = ThreeBatchPage
    /\ ind_batches = Slices(ThreeBatchPage, IND_BATCH_SIZE)
    /\ batch = <<>>
    /\ workers = <<>>
    /\ flushers = <<>>
    /\ lock_owner = Unlocked
    /\ unsaved = {}
    /\ preloaded = misp_server
    /\ run = 1
    /\ first_page = <<>>

NextThreeBatches ==
    \/ ProcessIndicatorBatch
    \/ \E k \in DOMAIN workers : AcquireLock(k)
    \/ \E k \in DOMAIN workers : IndicatorThread(k)
    \/ \E k \in DOMAIN workers : FindOrCreateFamilyEvent(k)
    \/ \E k \in DOMAIN workers : CheckEventAttributes(k)
    \/ \E k \in DOMAIN workers : CheckFamilyAttributes(k)
    \/ \E k \in DOMAIN workers : EventBranch(k)
    \/ \E k \in DOMAIN workers : AddAttribute(k)
    \/ \E k \in DOMAIN workers : TagAttributeFamily(k)
    \/ \E k \in DOMAIN workers : ReadDirtyFeeds(k)
    \/ \E k \in DOMAIN workers : MarkDirty(k)
    \/ \E k \in DOMAIN workers : FamilyBranch(k)
    \/ \E k \in DOMAIN workers : CheckAndSetThreatLevel(k)
    \/ \E k \in DOMAIN workers : ReportBranch(k)
    \/ \E k \in DOMAIN workers : FinishIndicator(k)
    \/ CleanLaundry
    \/ \E n \in DOMAIN flushers : UpdateEvent(n)
    \/ \E n \in DOMAIN flushers : LocateEvent(n)
    \/ \E n \in DOMAIN flushers : AcquireRefreshLock(n)
    \/ \E n \in DOMAIN flushers : RefreshFeeds(n)
    \/ PopCleaned
    \/ NoteTimestamp

SpecThreeBatches == InitThreeBatches /\ [][NextThreeBatches]_vars

(***************************************************************************)
(* The batches of a page  (indicators.py:356-367, 307-323)                 *)
(***************************************************************************)
\* a page of n indicators that differ in last_updated, each of a type for
\* which an object is built
SlicePage(n) == [k \in 1..n |-> Ind("p", "password", None, k)]

\* push_indicators at line 361, with a page of up to MaxSlicePage indicators
\* sliced into batches of up to MaxSliceSize
InitSlices ==
    /\ RetryInit
    /\ feeds = <<Event(TypeTitle("domain"), <<>>),
                 Event(TypeTitle("ip_address"), <<>>),
                 Event(TypeTitle("password"), <<>>)>>
    /\ existing_indicators = <<>>
    /\ retrieved_indicators = <<>>
    /\ futures = <<>>
    /\ merged = {}
    /\ index_pc = "done"
    /\ SettingsIdle
    /\ do_sightings = FALSE
    /\ IND_BATCH_SIZE \in 1..MaxSliceSize
    /\ thread_count = MaxThreads
    /\ dirty_feeds = <<>>
    /\ skipped = 0
    /\ batch_update = 0
    /\ misp_server = StoredEvents(feeds)
    /\ timestamp_file = <<>>
    /\ time_send_request \in RequestTimes
    /\ main_pc = "batch"
    /\ pages_fetched = 1
    /\ indicators_count = 0
    /\ indicators \in {SlicePage(n) : n \in 1..MaxSlicePage}
    /\ ind_batches = Slices(indicators, IND_BATCH_SIZE)
    /\ batch = <<>>
    /\ workers = <<>>
    /\ flushers = <<>>
    /\ lock_owner = Unlocked
    /\ unsaved = {}
    /\ preloaded = misp_server
    /\ run = 1
    /\ first_page = <<>>

NextSlices ==
    \/ ProcessIndicatorBatch
    \/ \E k \in DOMAIN workers : AcquireLock(k)
    \/ \E k \in DOMAIN workers : IndicatorThread(k)
    \/ \E k \in DOMAIN workers : FindOrCreateFamilyEvent(k)
    \/ \E k \in DOMAIN workers : CheckEventAttributes(k)
    \/ \E k \in DOMAIN workers : CheckFamilyAttributes(k)
    \/ \E k \in DOMAIN workers : EventBranch(k)
    \/ \E k \in DOMAIN workers : AddIndicatorObj(k)
    \/ \E k \in DOMAIN workers : FinishIndicator(k)
    \/ CleanLaundry
    \/ PopCleaned
    \/ NoteTimestamp

SpecSlices == InitSlices /\ [][NextSlices]_vars

(***************************************************************************)
(* Settings read by push_indicators  (indicators.py:355-356)               *)
(***************************************************************************)
\* the text of a numeric setting: a string of decimal digits, "" included
DigitStrings == SeqUpTo(Digits, MaxDigits)

\* int(text) for a string of decimal digits
RECURSIVE ParseInt(_)
ParseInt(text) ==
    IF text = <<>> THEN 0
    ELSE 10 * ParseInt(SubSeq(text, 1, Len(text) - 1)) + text[Len(text)]

\* int("") raises ValueError
IntRaises(text) == text = <<>>

\* Python max and min of two numbers
Max(a, b) == IF a >= b THEN a ELSE b
Min(a, b) == IF a <= b THEN a ELSE b

\* section.get(option, fallback): the text of the option, or the fallback
\* when the option is not set; int() of the fallback is the fallback
Get(option, fallback) == IF option = <<>> THEN fallback ELSE ParseInt(option[1])

\* the value is used as it is
Unclamped(low, high, value) == value

\* max(low, min(high, value))
Clamp(low, high, value) == Max(low, Min(high, value))

\* push_indicators line 356:
\* IND_BATCH_SIZE = max(50, min(5000, int(settings["MISP"].get("ind_attribute_batch_size", 500))))
ReadBatchSize ==
    /\ settings_pc = "batch_size"
    /\ IF ind_attribute_batch_size # <<>> /\ IntRaises(ind_attribute_batch_size[1])
         THEN /\ settings_pc' = "raised"
              /\ UNCHANGED IND_BATCH_SIZE
         ELSE /\ settings_pc' = "done"
              /\ IND_BATCH_SIZE' = Clamp(50, 5000, Get(ind_attribute_batch_size, 500))
    /\ UNCHANGED <<retryVars, indexVars, ind_attribute_batch_size, batchRest,
                   do_sightings, thread_count, dirty_feeds, skipped, batch_update, misp_server,
                   timestamp_file, time_send_request, main_pc, pages_fetched,
                   indicators_count, indicators, ind_batches, batch, workers,
                   flushers, lock_owner, unsaved, preloaded, run, first_page>>

InitBatchSize ==
    /\ RetryInit
    /\ IndexIdle
    /\ PipelineIdle
    /\ RefreshIdle
    /\ CallIdle
    /\ CtorIdle
    /\ StartIdle
    /\ settings_pc = "batch_size"
    /\ ind_attribute_batch_size \in {<<>>} \cup {<<text>> : text \in DigitStrings}

NextBatchSize == ReadBatchSize

SpecBatchSize == InitBatchSize /\ [][NextBatchSize]_vars

(***************************************************************************)
(* One event_thread and its clock  (indicators.py:231-294)                 *)
(***************************************************************************)
\* the text of event_save_memory_refresh_interval
IntervalStrings == SeqUpTo(Digits, MaxIntervalDigits)

\* seconds one call of update_event can take
SaveTimes == {1, 30, 31, 61, 301}

\* the refresh is made for a duration that has reached refresh_tolerance
RefreshDueOrEqual(elapsed, refresh_tolerance) == elapsed >= refresh_tolerance

\* line 263: if duration > refresh_tolerance
RefreshDue(elapsed, refresh_tolerance) == elapsed > refresh_tolerance

\* lines 236-242 and 290: one pass of the save loop. update_event takes some
\* time and stores the event or raises; duration is the time since
\* save_start, which line 234 sets once, before the loop.
TimedUpdateEvent ==
    /\ evt_pc = "save"
    /\ KeepTrying(evt_tries, evt_successful)
    /\ \E t \in SaveTimes :
          /\ save_time' = t
          /\ duration' = duration + t
    /\ \/ /\ evt_successful' = TRUE
          /\ evt_pc' = "tolerance"
          /\ UNCHANGED evt_tries
       \/ \E exc \in SaveFailures :
             /\ UNCHANGED evt_successful
             /\ IF Caught(exc)
                  THEN /\ evt_tries' = evt_tries + 1
                       /\ evt_pc' = IF KeepTrying(evt_tries + 1, FALSE)
                                      THEN "save" ELSE "done"
                  ELSE /\ evt_pc' = "raised"
                       /\ UNCHANGED evt_tries
    /\ UNCHANGED <<retryVars, indexVars, pipelineVars, refreshRest,
                   event_save_memory_refresh_interval, refreshed>>

\* lines 258-263 and 283-290: after a save that succeeded, refresh_tolerance
\* is max(30, min(300, int(setting or 60))) and the refresh is made when
\* duration is greater; the ValueError of int() is caught at line 283
ReadRefreshTolerance ==
    /\ evt_pc = "tolerance"
    /\ LET option == event_save_memory_refresh_interval
       IN IF option # <<>> /\ IntRaises(option[1])
            THEN /\ evt_pc' = "done"
                 /\ UNCHANGED refreshed
            ELSE IF RefreshDue(duration, Clamp(30, 300, Get(option, 60)))
                   THEN evt_pc' = "refresh" /\ refreshed' = TRUE
                   ELSE evt_pc' = "done" /\ UNCHANGED refreshed
    /\ evt_tries' = evt_tries + 1
    /\ UNCHANGED <<retryVars, indexVars, pipelineVars, refreshRest,
                   event_save_memory_refresh_interval, evt_successful, duration,
                   save_time>>

\* lines 264-282: the event is located, fetched and swapped
RefreshInMemory ==
    /\ evt_pc = "refresh"
    /\ evt_pc' = "done"
    /\ UNCHANGED <<retryVars, indexVars, pipelineVars, refreshRest,
                   event_save_memory_refresh_interval, evt_tries, evt_successful,
                   duration, save_time, refreshed>>

InitRefresh ==
    /\ RetryInit
    /\ IndexIdle
    /\ PipelineIdle
    /\ BatchSizeIdle
    /\ CallIdle
    /\ CtorIdle
    /\ StartIdle
    /\ event_save_memory_refresh_interval
          \in {<<>>} \cup {<<text>> : text \in IntervalStrings}
    /\ evt_pc = "save"
    /\ evt_tries = 1
    /\ evt_successful = FALSE
    /\ duration = 0
    /\ save_time = 0
    /\ refreshed = FALSE

NextRefresh ==
    \/ TimedUpdateEvent
    \/ ReadRefreshTolerance
    \/ RefreshInMemory

SpecRefresh == InitRefresh /\ [][NextRefresh]_vars

(***************************************************************************)
(* The calls of the MISP client  (threaded_misp.py:20-106)                 *)
(***************************************************************************)
\* the methods of self.misp that the indicator import calls: search
\* (indicators.py lines 108 and 274), update_event (line 238), get_attribute
\* (line 456), add_sighting (lines 450 and 469), get_organisation (line 92)
CalledMethods ==
    {"search", "update_event", "get_attribute", "add_sighting", "get_organisation"}

\* the methods that class MISP overrides with a call of self._retry; the
\* override of update_event is commented out (lines 62-75), search and
\* get_attribute are not overridden and are those of ExpandedPyMISP
RetriedMethods == {"add_sighting", "get_organisation"}

\* a method of self.misp is called
CallMethod ==
    /\ call_pc = "idle"
    /\ \E m \in CalledMethods :
          /\ misp_method' = m
          /\ call_pc' = IF m \in RetriedMethods THEN "retry" ELSE "direct"
          /\ retry_pc' = IF m \in RetriedMethods THEN "try" ELSE retry_pc
    /\ UNCHANGED <<i, response, retry_result, attempts, slept, sighting_pc,
                   thread_lock, added_sighting_count, sighting_calls, indexVars,
                   pipelineVars, callRest>>

\* a method of ExpandedPyMISP is invoked as it is: its response is returned
\* and its exception is raised to the caller
DirectCall ==
    /\ call_pc = "direct"
    /\ \E out \in FOutcomes :
          /\ attempts' = Append(attempts, out)
          /\ call_pc' = IF out = "exc" THEN "raised" ELSE "returned"
    /\ UNCHANGED <<retry_pc, i, response, retry_result, slept, sighting_pc,
                   thread_lock, added_sighting_count, sighting_calls, indexVars,
                   pipelineVars, callRest, misp_method>>

\* self._retry has returned to the method that called it (it raises nothing:
\* after the last attempt it falls off its loop)
RetriedCallReturns ==
    /\ call_pc = "retry"
    /\ retry_pc = "returned"
    /\ call_pc' = "returned"
    /\ UNCHANGED <<retryVars, indexVars, pipelineVars, callRest, misp_method>>

InitCalls ==
    /\ RetryInit
    /\ IndexIdle
    /\ PipelineIdle
    /\ BatchSizeIdle
    /\ RefreshIdle
    /\ CallIdle
    /\ CtorIdle
    /\ StartIdle

NextCalls ==
    \/ CallMethod
    \/ DirectCall
    \/ RetriedCallReturns
    \/ RetryInvoke
    \/ RetryReturn
    \/ RetryTryBackoff
    \/ RetryRaise
    \/ RetryExceptBackoff
    \/ RetryExceptGiveUp
    \/ RetryFallOff

SpecCalls == InitCalls /\ [][NextCalls]_vars

(***************************************************************************)
(* The construction of the importer  (importer.py:28-53)                   *)
(***************************************************************************)
\* only the settings of the MISP server are confirmed
ConfirmServerOnly == <<"misp_url", "misp_auth_key">>

\* the settings that lines 30-32 list, in the order of the loop
confirm_settings ==
    <<"misp_url", "misp_auth_key", "crowdstrike_org_uuid",
      "reports_timestamp_filename", "indicators_timestamp_filename",
      "actors_timestamp_filename">>

\* the settings that the call of MISP(...) at lines 47-53 reads
ClientSettings == {"misp_url", "misp_auth_key", "misp_enable_ssl", "max_threads"}

\* every key that __init__ reads up to line 53
SettingKeys ==
    {confirm_settings[n] : n \in DOMAIN confirm_settings} \cup ClientSettings

\* one round of the loop of lines 33-45: import_settings[item] is read; a
\* KeyError is logged and raised as SystemExit
ConfirmSetting ==
    /\ ctor_pc = "confirm"
    /\ IF confirm_settings[item] \notin import_settings
         THEN /\ ctor_pc' = "SystemExit"
              /\ item' = item
         ELSE IF item < Len(confirm_settings)
         THEN /\ ctor_pc' = "confirm"
              /\ item' = item + 1
         ELSE /\ ctor_pc' = "create"
              /\ item' = item
    /\ UNCHANGED <<retryVars, indexVars, pipelineVars, ctorRest, import_settings,
                   misp_client>>

\* lines 47-53: the client is created from the settings; a setting that is
\* not there raises KeyError before MISP is called
CreateClient ==
    /\ ctor_pc = "create"
    /\ IF ClientSettings \subseteq import_settings
         THEN /\ misp_client' = "MISP"
              /\ ctor_pc' = "constructed"
         ELSE /\ misp_client' = misp_client
              /\ ctor_pc' = "KeyError"
    /\ UNCHANGED <<retryVars, indexVars, pipelineVars, ctorRest, import_settings,
                   item>>

InitCtor ==
    /\ RetryInit
    /\ IndexIdle
    /\ PipelineIdle
    /\ BatchSizeIdle
    /\ RefreshIdle
    /\ CallIdle
    /\ StartIdle
    /\ ctor_pc = "confirm"
    /\ import_settings \in SUBSET SettingKeys
    /\ item = 1
    /\ misp_client = None

NextCtor ==
    \/ ConfirmSetting
    \/ CreateClient

SpecCtor == InitCtor /\ [][NextCtor]_vars

(***************************************************************************)
(* The start time of a run  (indicators.py:155-185, 608-612)               *)
(***************************************************************************)
\* datetime.today() at line 157, in seconds
Today == 2000000

\* the times that a run commits
CommittedTimes == {0, 9, 10, 105, 1999940}

\* the ages, in minutes, that process_indicators is called with
MinsBefore == {0, 1, 20220, 20221}

\* str(n) of a natural number: its decimal digits, without leading zeros
RECURSIVE Str(_)
Str(n) == IF n < 10 THEN <<n>> ELSE Append(Str(n \div 10), n % 10)

\* what _note_timestamp is called with: the float time_send_request.timestamp()
\* (line 190), here whole seconds and tenths, or the text str(last_updated)
\* (line 389)
NoteArgs ==
    {[kind |-> "float", whole |-> t, tenths |-> f, text |-> <<>>] :
         t \in CommittedTimes, f \in {0, 7}}
    \cup {[kind |-> "str", whole |-> 0, tenths |-> 0, text |-> Str(t)] :
              t \in CommittedTimes}

\* int(timestamp) at line 612: a float is truncated, a text is parsed
IntOf(timestamp) ==
    IF timestamp.kind = "float" THEN timestamp.whole ELSE ParseInt(timestamp.text)

\* the saved timestamp is never read
NeverReadsFile(forced, exists) == FALSE

\* lines 160-161: the file is read when force is off and the file is there
ReadsFile(forced, exists) == ~forced /\ exists

\* _note_timestamp, lines 608-612, at the end of the previous run
WriteTimestampFile ==
    /\ start_pc = "note"
    /\ ts_file' = Str(IntOf(note_arg))
    /\ isfile' = TRUE
    /\ start_pc' = "default"
    /\ UNCHANGED <<retryVars, indexVars, pipelineVars, startRest, force, note_arg,
                   indicators_mins_before, start_get_events>>

\* lines 157-159: the start time from the age that the configuration gives
DefaultStart ==
    /\ start_pc = "default"
    /\ start_get_events' = Today - 60 * Min(indicators_mins_before, 20220)
    /\ start_pc' = "read"
    /\ UNCHANGED <<retryVars, indexVars, pipelineVars, startRest, force, isfile,
                   ts_file, note_arg, indicators_mins_before>>

\* lines 160-164: the saved timestamp replaces the start time
ReadTimestampFile ==
    /\ start_pc = "read"
    /\ start_get_events' = IF ReadsFile(force, isfile) THEN ParseInt(ts_file)
                           ELSE start_get_events
    /\ start_pc' = "fetch"
    /\ UNCHANGED <<retryVars, indexVars, pipelineVars, startRest, force, isfile,
                   ts_file, note_arg, indicators_mins_before>>

\* line 185: get_indicators is called with the start time
GetIndicatorsFromStart ==
    /\ start_pc = "fetch"
    /\ start_pc' = "got"
    /\ UNCHANGED <<retryVars, indexVars, pipelineVars, startRest, force, isfile,
                   ts_file, note_arg, indicators_mins_before, start_get_events>>

\* a first run, with no timestamp file, or a run after one that has a
\* timestamp to write
InitStart ==
    /\ RetryInit
    /\ IndexIdle
    /\ PipelineIdle
    /\ BatchSizeIdle
    /\ RefreshIdle
    /\ CallIdle
    /\ CtorIdle
    /\ force \in BOOLEAN
    /\ isfile = FALSE
    /\ ts_file = <<>>
    /\ indicators_mins_before \in MinsBefore
    /\ start_get_events = 0
    /\ \/ note_arg = NoNote /\ start_pc = "default"
       \/ note_arg \in NoteArgs /\ start_pc = "note"

NextStart ==
    \/ WriteTimestampFile
    \/ DefaultStart
    \/ ReadTimestampFile
    \/ GetIndicatorsFromStart

SpecStart == InitStart /\ [][NextStart]_vars

(***************************************************************************)
(* Claims about the retry wrapper, checked under SpecRetry                 *)
(***************************************************************************)
\* every attempt of the current call failed: it gave neither a response
\* without errors nor a 404
AllAttemptsFailed ==
    /\ Len(attempts) = 3
    /\ \A k \in 1..Len(attempts) : attempts[k] \notin {"ok", "e404"}

\* C5: the wrapper invokes the wrapped operation at most 3 times per call,
\* and an attempt that yields a response without an error payload, or with a
\* 404 error code, is the last invocation of the call: no invocation follows
\* it and the value returned is that response.
C5_AtMostThreeAndImmediateReturn ==
    /\ Len(attempts) <= 3
    /\ \A k \in 1..(Len(attempts) - 1) : attempts[k] \notin {"ok", "e404"}
    /\ (attempts # <<>> /\ attempts[Len(attempts)] \in {"ok", "e404"})
          => /\ retry_pc \in {"check", "returned"}
             /\ retry_pc = "returned" => retry_result = attempts[Len(attempts)]

\* C5 witness: two failed attempts, then a 404 on the third one, returned
C5_Witness ==
    /\ retry_pc = "returned"
    /\ attempts = <<"exc", "err_tuple", "e404">>
    /\ retry_result = "e404"

\* C6: when all 3 attempts fail, the wrapper ends by surfacing a terminal
\* error to its caller (it does not return normally).
C6_ExhaustedSurfacesError ==
    AllAttemptsFailed => retry_pc # "returned"

\* C7: after failed attempt i (0-based) that is not the last one, exactly one
\* wait of 0.3 * 2^i seconds (3 then 6 tenths) happens before attempt i+1; no
\* wait happens after the final attempt or after a successful one.
C7_BackoffSchedule ==
    /\ Len(slept) <= 2
    /\ \A k \in 1..Len(slept) : slept[k] = <<3, 6>>[k]
    /\ retry_pc \in {"check", "except", "returned"}
          => Len(slept) = Len(attempts) - 1
    /\ (retry_pc = "try" /\ i < 3) => Len(slept) = Len(attempts)
    /\ (retry_pc = "try" /\ i >= 3) => Len(slept) = Len(attempts) - 1

\* C7 witness: three failed attempts were made, with the two waits between
\* them, and the call is over
C7_Witness ==
    /\ retry_pc = "returned"
    /\ AllAttemptsFailed
    /\ slept = <<3, 6>>

(***************************************************************************)
(* Claims about the deduplication index, checked under SpecIndex           *)
(***************************************************************************)
\* the search of type t failed with SSLError / ConnectionError: the warning
\* of line 119 was logged and attribute_search returned None
SearchFailed(t) == t \in DOMAIN futures /\ futures[t].state = "done_none"

\* C9: when the destination search for one indicator category fails while
\* the index is built (and no search raised anything else), the build is not
\* aborted, and once it is done the entries of the other categories are in
\* the merged map.
C9_FailedSearchTolerated ==
    (/\ \E t \in IndicatorTypes : SearchFailed(t)
     /\ \A t \in DOMAIN futures : futures[t].state # "raised")
        => /\ index_pc # "aborted"
           /\ index_pc = "done" =>
                \A t \in DOMAIN futures :
                    futures[t].state = "done" =>
                        DOMAIN futures[t].result \subseteq DOMAIN retrieved_indicators

\* C10 as amended: after the index is built, it contains exactly the merged
\* search entries whose event is not in self.feeds at all: entries of family
\* events and entries of indicator type (category) events are both filtered
\* out, entries of any other event (a report) are kept unchanged; and the
\* merged map holds the values of every search result.
C10_IndexIsMergedEntriesOutsideFeeds ==
    index_pc = "done" =>
        /\ DOMAIN retrieved_indicators =
              UNION {DOMAIN futures[t].result : t \in DOMAIN futures}
        /\ \A v \in Values :
              v \in DOMAIN existing_indicators <=>
                  /\ v \in DOMAIN retrieved_indicators
                  /\ \A k \in DOMAIN feeds :
                        feeds[k].uuid # retrieved_indicators[v].event_uuid
        /\ \A v \in DOMAIN existing_indicators :
              existing_indicators[v] = retrieved_indicators[v]

\* C10 witness: the index is built from a merged map that holds an entry of
\* an indicator type event, which was filtered out, and an entry of a report
\* event, which was kept
C10_Witness ==
    /\ index_pc = "done"
    /\ \E v, w \in DOMAIN retrieved_indicators :
          /\ retrieved_indicators[v].event_uuid = EventUuid(TypeTitle("domain"))
          /\ v \notin DOMAIN existing_indicators
          /\ retrieved_indicators[w].event_uuid = ReportUuid
          /\ w \in DOMAIN existing_indicators

\* C10 as stated: after the index is built, an entry of the merged map is in
\* the index exactly when its event is not a family event (entries of plain
\* indicator type events are kept).
C10_CategoryEntriesKept ==
    index_pc = "done" =>
        \A v \in DOMAIN retrieved_indicators :
            v \in DOMAIN existing_indicators <=>
                \A k \in DOMAIN feeds :
                    feeds[k].info \in FamilyTitles =>
                        feeds[k].uuid # retrieved_indicators[v].event_uuid

(***************************************************************************)
(* Claims about the indicator pipeline, checked under Spec                 *)
(***************************************************************************)
\* C1: in every reachable state of a run, no event of self.feeds holds two
\* attributes with the same value: an indicator whose value is already in
\* the event, from the start of the run or from another worker of the
\* batch, is never appended as a second attribute.
C1_NoDuplicateAttribute ==
    \A e \in DOMAIN feeds :
        \A x, y \in DOMAIN feeds[e].attributes :
            feeds[e].attributes[x] = feeds[e].attributes[y] => x = y

\* C2: when a flush has returned, every event whose save attempts all failed
\* in it is still in self.dirty_feeds.
C2_FailedSaveStaysDirty ==
    main_pc = "batch" => unsaved \subseteq DOMAIN dirty_feeds

\* the timestamp of a page has just been written by push_indicators
CheckpointWritten ==
    /\ main_pc = "fetch"
    /\ pages_fetched > 0
    /\ timestamp_file # <<>>

\* C3: the timestamp of a page is written only when every event that
\* received attributes from the page has been saved to MISP.
C3_CheckpointOnlyAfterSuccessfulFlush ==
    CheckpointWritten => unsaved = {}

\* the exceptions of update_event that a flush retries
RetryableFailures == {"SSLError", "ConnectionError", "MISPServerError"}

\* an indicator that cannot be mapped: unknown type, or no value
MappingError(ind) == ind.indicator = None \/ ~KnownType(ind.type)

\* C4: a save that fails with a retryable failure, also on the third
\* attempt, never makes the event_thread raise: the thread returns, the main
\* thread leaves the flush for the next batch (and, after the last batch,
\* for the timestamp of the page), and a run is aborted only by a thread
\* that raised or by the StopIteration of line 386.
C4_RetryableSaveFailureNeverAborts ==
    /\ [](\A n \in DOMAIN flushers :
            flushers[n].pc = "raised"
                => flushers[n].raised_with \notin RetryableFailures)
    /\ [](main_pc = "aborted" =>
            \/ \E k \in DOMAIN workers : workers[k].pc = "raised"
            \/ \E n \in DOMAIN flushers : flushers[n].pc = "raised"
            \/ ind_batches = <<>> /\ flushers = <<>>
                                  /\ LastUpdated(indicators) = <<>>)
    /\ [][(/\ main_pc = "flush"
           /\ main_pc' # "flush"
           /\ \A n \in DOMAIN flushers : flushers[n].pc # "raised")
              => /\ main_pc' = "batch"
                 /\ ind_batches' = ind_batches]_vars
    /\ [][(main_pc = "batch" /\ main_pc' # "batch" /\ unsaved # {})
              => \/ main_pc' = "workers" /\ ind_batches # <<>>
                 \/ main_pc' = "fetch" /\ timestamp_file' = LastUpdated(indicators)
                 \/ main_pc' = "aborted" /\ LastUpdated(indicators) = <<>>]_vars

\* C4 witness: the save of an event failed three times in the flush of a
\* page, and the timestamp of that page has been written
C4_Witness ==
    /\ CheckpointWritten
    /\ unsaved # {}
    /\ dirty_feeds = <<>>

\* C8: an indicator of unknown type, or without a value, never makes its
\* indicator_thread raise, so that it never aborts the batch and the run.
C8_MappingErrorSkipsOnlyThatIndicator ==
    \A k \in DOMAIN workers :
        MappingError(batch[k]) => workers[k].pc # "raised" /\ main_pc # "aborted"

\* how often value v occurs among the attributes of an event
Occurrences(v, atts) == Cardinality({k \in DOMAIN atts : atts[k] = v})

\* C11: a value that the deduplication data loaded at run start holds under
\* a container that is no family container is never attached a second time
\* to that container. The containers of the entries of
\* self.existing_indicators are no events of self.feeds, so no worker
\* writes to them; a value that an indicator type event held at run start
\* occurs in it exactly once, whatever the workers do.
C11_NoDuplicateOfPreloadedValue ==
    /\ \A v \in DOMAIN existing_indicators :
          \A e \in DOMAIN feeds : feeds[e].uuid # existing_indicators[v].event_uuid
    /\ \A e \in DOMAIN feeds :
          feeds[e].info \in TypeTitles
              => \A k \in DOMAIN preloaded[feeds[e].uuid].attributes :
                    Occurrences(preloaded[feeds[e].uuid].attributes[k],
                                feeds[e].attributes) = 1

\* C11 witness: two workers of one batch have handled the value "a", which
\* the index and the indicator type event both held at run start
C11_Witness ==
    /\ main_pc = "workers"
    /\ "a" \in DOMAIN existing_indicators
    /\ preloaded[EventUuid(TypeTitle("domain"))].attributes = <<"a">>
    /\ Len(batch) = 2
    /\ \A k \in DOMAIN workers :
          workers[k].pc = "done" /\ batch[k].indicator = "a"

(***************************************************************************)
(* Claims about a rerun, checked under SpecRerun                           *)
(***************************************************************************)
\* what MISP stored of the event of a uuid when the run started
AtRunStart(u) == IF u \in DOMAIN preloaded THEN preloaded[u] ELSE NoStored

\* C12: a second run on the page of the first run, after a first run in
\* which no save failed and with MISP unchanged in between, adds no
\* attribute and no object to any event: every event of self.feeds holds
\* what MISP stored of it when the second run started.
C12_SecondRunAddsNothing ==
    run = 2 =>
        \A e \in DOMAIN feeds :
            /\ feeds[e].attributes = AtRunStart(feeds[e].uuid).attributes
            /\ feeds[e].objects = AtRunStart(feeds[e].uuid).objects

(***************************************************************************)
(* Claims about the timestamp file, checked under Spec                     *)
(***************************************************************************)
\* the main thread writes the timestamp of the page it has pushed
WritesCheckpoint == main_pc = "batch" /\ main_pc' = "fetch"

\* no indicator of the page being pushed was updated before the timestamp
\* that the file holds
PageNotOlderThanCheckpoint ==
    \A k \in DOMAIN indicators :
        indicators[k].last_updated # 0
            => indicators[k].last_updated >= timestamp_file[1]

\* C13: when the last_updated values of the pages do not decrease (no
\* indicator of a page is older than the timestamp written for the page
\* before it), the timestamp written for a page is greater than or equal to
\* the timestamp written for the page before it.
C13_CheckpointMonotonic ==
    [][(WritesCheckpoint /\ timestamp_file # <<>> /\ PageNotOlderThanCheckpoint)
          => timestamp_file'[1] >= timestamp_file[1]]_vars

\* C13 witness: the timestamp of a second page has been written, and it is
\* newer than any indicator of a first page that has a family-less "a"
C13_Witness ==
    /\ main_pc = "fetch"
    /\ pages_fetched = 2
    /\ indicators_count = 2
    /\ timestamp_file = <<2>>

\* position k holds the last indicator of the page with a last_updated
LastWithTimestamp(k) ==
    /\ indicators[k].last_updated # 0
    /\ \A j \in DOMAIN indicators : j > k => indicators[j].last_updated = 0

\* C14: the timestamp written for a page is the last_updated of the last
\* indicator of the page, in page order, whose last_updated is not null.
C14_CheckpointIsLastNonNull ==
    [][WritesCheckpoint
          => \E k \in DOMAIN indicators :
                /\ LastWithTimestamp(k)
                /\ timestamp_file' = <<indicators[k].last_updated>>]_vars

\* C14 witness: a page of two indicators pushed in two batches, "a" (updated
\* at 1) before "b" (no last_updated), and the file holds 1
C14_Witness ==
    /\ main_pc = "fetch"
    /\ pages_fetched = 1
    /\ indicators_count = 2
    /\ IND_BATCH_SIZE = 1
    /\ timestamp_file = <<1>>
    /\ preloaded[EventUuid(TypeTitle("domain"))].attributes = <<>>
    /\ \E e \in DOMAIN feeds :
          /\ feeds[e].info = TypeTitle("domain")
          /\ feeds[e].attributes = <<"a", "b">>

\* the run is over and the source returned no indicator at all: no page, or
\* one page without indicators
EmptyRunOver ==
    /\ main_pc \in {"done", "aborted"}
    /\ indicators_count = 0
    /\ indicators = <<>>

\* C15: a run for which the source returned no indicator ends with the time
\* the request was sent in the timestamp file.
C15_EmptyRunCommitsRequestTime ==
    EmptyRunOver => timestamp_file = <<time_send_request>>

\* the batch that was pushed last is the last batch of the page
LastBatchPushed ==
    /\ indicators # <<>>
    /\ batch = Slices(indicators, IND_BATCH_SIZE)[Len(Slices(indicators, IND_BATCH_SIZE))]

\* C16: the timestamp of a page is written once, when the main thread leaves
\* the page: every batch of the page has been pushed and flushed by then, and
\* the timestamp file is not touched between two batches of a page.
C16_CheckpointOncePerPage ==
    [][((WritesCheckpoint \/ timestamp_file' # timestamp_file) /\ main_pc # "end")
          => /\ WritesCheckpoint
             /\ ind_batches = <<>>
             /\ LastBatchPushed
             /\ workers = <<>>
             /\ flushers = <<>>
             /\ timestamp_file' = LastUpdated(indicators)
             /\ timestamp_file' # <<>>]_vars

\* C16 witness: the timestamp of a page of two batches has been written
C16_Witness ==
    /\ main_pc = "fetch"
    /\ pages_fetched = 1
    /\ IND_BATCH_SIZE = 1
    /\ indicators_count = 2
    /\ timestamp_file # <<>>

(***************************************************************************)
(* Claims about the order of pages, batches and pools, checked under Spec  *)
(***************************************************************************)
\* a thread of the pool has started and has not returned
Active(pool) == \E k \in DOMAIN pool : pool[k].pc \notin {"queued", "done", "raised"}

\* the batches of the page that have been handed out so far
BatchesPushed == Len(Slices(indicators, IND_BATCH_SIZE)) - Len(ind_batches)

\* C17: pages are pushed one after another, the batches of a page one after
\* another in page order, and within a batch the flush threads start when
\* every indicator thread has finished and the indicator threads of the next
\* batch start when every flush thread has finished: the two pools are never
\* active at the same time.
C17_PagesBatchesPoolsSequential ==
    /\ [](~(Active(workers) /\ Active(flushers)))
    /\ [](workers # <<>> => main_pc \in {"workers", "aborted"} /\ flushers = <<>>)
    /\ [](flushers # <<>> => main_pc \in {"flush", "aborted"} /\ workers = <<>>)
    /\ [](main_pc \in {"workers", "flush"}
             => /\ BatchesPushed >= 1
                /\ batch = Slices(indicators, IND_BATCH_SIZE)[BatchesPushed])
    /\ [][(main_pc = "workers" /\ main_pc' # "workers")
             => \A k \in DOMAIN workers : workers[k].pc \in {"done", "raised"}]_vars
    /\ [][(main_pc = "flush" /\ main_pc' # "flush")
             => \A n \in DOMAIN flushers : flushers[n].pc \in {"done", "raised"}]_vars
    /\ [][main_pc' = "workers" /\ main_pc # "workers"
             => /\ main_pc = "batch"
                /\ ~Active(workers) /\ ~Active(flushers)
                /\ batch' = Head(ind_batches)
                /\ ind_batches' = Tail(ind_batches)]_vars
    /\ [][(indicators' # indicators /\ indicators' # <<>>)
             => /\ main_pc = "fetch"
                /\ ind_batches = <<>>
                /\ workers = <<>> /\ flushers = <<>>]_vars

\* C17 witness: the flush threads of the second batch of a page are saving
\* after the indicator threads of that batch have finished
C17_Witness ==
    /\ main_pc = "flush"
    /\ IND_BATCH_SIZE = 1
    /\ Len(indicators) = 2
    /\ BatchesPushed = 2
    /\ workers = <<>>
    /\ \E n \in DOMAIN flushers : flushers[n].pc = "save"

(***************************************************************************)
(* Claims about self.feeds and the Lock, checked under Spec                *)
(***************************************************************************)
\* C18: self.feeds holds at most one event for a title (an indicator type
\* title or a malware family title), whatever the interleaving of the
\* indicator threads and of the refreshes of the flush threads.
C18_OneEventPerTitle ==
    \A x, y \in DOMAIN feeds : feeds[x].info = feeds[y].info => x = y

\* C19: an indicator thread that changes an event of self.feeds (appends an
\* attribute, an object or a tag, or sets the threat level) holds the Lock
\* while it does so.
C19_EventsMutatedUnderLock ==
    [][(main_pc = "workers" /\ feeds' # feeds)
          => \E k \in DOMAIN workers :
                /\ workers'[k] # workers[k]
                /\ lock_owner = k]_vars

(***************************************************************************)
(* Claims about sightings, checked under Spec                              *)
(***************************************************************************)
\* thread k leaves the comparison of add_sighting_to_attribute (line 460)
AttributeSiteDecides(k) ==
    /\ workers[k].pc = "sight"
    /\ workers'[k].pc \in {"sight_send", "sight_skip_lock"}

\* thread k calls add_report_sighting (lines 586-593) and leaves its
\* comparison (line 441)
ReportSiteDecides(k) ==
    /\ workers[k].pc = "report"
    /\ workers'[k].pc # "report"
    /\ ~workers[k].SIGHTED
    /\ batch[k].indicator \in DOMAIN existing_indicators
    /\ do_sightings

\* the timestamp add_indicator_event hands to add_report_sighting as
\* ind_timestamp (line 591)
IndTimestamp == 0

\* positions of a thread from which it goes on to send a sighting, and from
\* which it goes on to add 1 to self.skipped
SendPcs == {"sight_send", "report_send"}
SkipPcs == {"sight_skip_lock", "sight_skip"}

\* C20: at both call sites a sighting is sent only when the indicator's
\* last_seen differs from the timestamp known for the value, and when it
\* does not differ no sighting is sent and self.skipped is incremented.
C20_SightingOnlyWhenTimestampDiffers ==
    [][\A k \in DOMAIN workers :
          /\ AttributeSiteDecides(k)
                => /\ workers'[k].pc \in SendPcs
                        => LastSeen(batch[k]) # workers'[k].ind_obj
                   /\ LastSeen(batch[k]) = workers'[k].ind_obj
                        => workers'[k].pc \in SkipPcs
          /\ ReportSiteDecides(k)
                => /\ workers'[k].pc \in SendPcs
                        => LastSeen(batch[k]) # IndTimestamp
                   /\ LastSeen(batch[k]) = IndTimestamp
                        => workers'[k].pc \in SkipPcs]_vars

\* thread k has asked MISP.add_sighting to write a sighting, at the attribute
\* site or at the report site, and the call is over
SightingWriteOver(k) ==
    /\ workers[k].pc \in SendPcs
    /\ workers'[k].pc # workers[k].pc

\* C21: a sighting write that fails, at either call site, does not touch the
\* attributes or the dirty marks, and the thread goes on and returns: the
\* main thread is able to flush the batch.
C21_SightingFailureIsHarmless ==
    [][\A k \in DOMAIN workers :
          SightingWriteOver(k)
             => /\ feeds' = feeds
                /\ dirty_feeds' = dirty_feeds
                /\ workers'[k].pc # "raised"]_vars

(***************************************************************************)
(* Claims about tags and duplicates, checked under Spec                    *)
(***************************************************************************)
\* what MISP holds of the event with uuid u
OnServer(u) == IF u \in DOMAIN misp_server THEN misp_server[u] ELSE NoStored

\* a batch has been pushed and flushed, and no save of the page is missing
BatchFlushed == main_pc = "batch" /\ batch # <<>> /\ unsaved = {}

\* C22: an attribute stays attached and is persisted by the flush of its
\* batch whether or not the derivation of its tags failed: after the flush
\* MISP holds the attributes of every event of self.feeds.
C22_AttributePersistedDespiteTagFailure ==
    BatchFlushed
        => \A e \in DOMAIN feeds :
              feeds[e].attributes = OnServer(feeds[e].uuid).attributes

\* thread k has found the indicator in both events with do_sightings off and
\* is on the skip path of lines 539-546
OnSkipPath(k) == workers[k].pc \in {"skip_lock", "skip"}

\* C23: an indicator that is a duplicate in its indicator type event and in
\* its family event, with do_sightings off, takes the skip path, on which
\* the thread adds exactly 1 to self.skipped and changes nothing else: no
\* attribute, no object, no sighting, no dirty mark, and it returns (0, 0).
C23_DoubleDuplicateOnlyCounts ==
    /\ [](\A k \in DOMAIN workers :
            OnSkipPath(k) => /\ ~do_sightings
                             /\ workers[k].evt_dupe /\ workers[k].mal_dupe
                             /\ workers[k].feed_result = 0
                             /\ workers[k].fam_result = 0)
    /\ [][\A k \in DOMAIN workers :
            /\ (workers[k].pc = "check_mal" /\ workers'[k].pc # "check_mal"
                /\ ~do_sightings /\ workers'[k].evt_dupe /\ workers'[k].mal_dupe)
                  => workers'[k].pc = "skip_lock"
            /\ (OnSkipPath(k) /\ workers'[k].pc # workers[k].pc)
                  => /\ feeds' = feeds
                     /\ dirty_feeds' = dirty_feeds
                     /\ added_sighting_count' = added_sighting_count
                     /\ workers'[k].feed_result = 0
                     /\ workers'[k].fam_result = 0
                     /\ workers[k].pc = "skip_lock"
                           => workers'[k].pc = "skip" /\ skipped' = skipped
                     /\ workers[k].pc = "skip"
                           => workers'[k].pc = "finish_lock" /\ skipped' = skipped + 1]_vars

\* C23 witness: the thread of the indicator "a" of family F, a duplicate in
\* both events, has returned (0, 0) and self.skipped is 1
C23_Witness ==
    /\ main_pc = "workers"
    /\ ~do_sightings
    /\ Len(batch) = 1
    /\ batch[1].indicator = "a" /\ batch[1].malware_family = "F"
    /\ workers[1].pc = "done"
    /\ workers[1].feed_result = 0 /\ workers[1].fam_result = 0
    /\ skipped = 1
    /\ dirty_feeds = <<>>
    /\ \A e \in DOMAIN feeds : feeds[e].attributes = AtRunStart(feeds[e].uuid).attributes

\* positions of a thread inside the report sighting
ReportPcs == {"report_send", "report_count_lock", "report_count"}

\* C24: a thread sends at most one sighting for its indicator. It enters a
\* sighting site (indicator type event, family event or report) only when it
\* has entered none before, SIGHTED stays set until the thread returns, the
\* family event site is not entered for a value that is a duplicate in the
\* indicator type event, and after the report sighting the thread returns.
C24_AtMostOneSighting ==
    /\ [](\A k \in DOMAIN workers :
            /\ workers[k].pc \in {"sight"} \cup ReportPcs => ~workers[k].SIGHTED
            /\ (workers[k].pc \in {"sight", "sight_send"} /\ workers[k].target = "mal")
                  => ~workers[k].evt_dupe)
    /\ [][\A k \in DOMAIN workers \cap DOMAIN workers' :
            /\ (workers[k].SIGHTED /\ workers'[k].pc # "done")
                  => workers'[k].SIGHTED
            /\ (workers[k].pc = "sight" /\ workers'[k].pc # "sight")
                  => workers'[k].SIGHTED
            /\ (workers[k].pc \in ReportPcs /\ workers'[k].pc # workers[k].pc)
                  => workers'[k].pc \in ReportPcs \cup {"finish_lock", "raised"}
            /\ workers'[k].pc \in SendPcs /\ workers[k].pc \notin SendPcs
                  => workers[k].pc \in {"sight", "report"} /\ ~workers[k].SIGHTED]_vars
    /\ [][added_sighting_count' # added_sighting_count
            => /\ added_sighting_count' = added_sighting_count + 1
               /\ \E k \in DOMAIN workers :
                     /\ workers[k].pc \in {"sight_count", "report_count"}
                     /\ workers'[k].pc # workers[k].pc]_vars

\* C24 witness: a thread whose value is a duplicate in both events has sent
\* the sighting of the indicator type event and has passed the family event
\* without a second one
C24_Witness ==
    /\ main_pc = "workers"
    /\ added_sighting_count = 1
    /\ \E k \in DOMAIN workers :
          /\ workers[k].pc = "report"
          /\ workers[k].SIGHTED
          /\ workers[k].evt_dupe /\ workers[k].mal_dupe
          /\ Len(batch) = 1

(***************************************************************************)
(* Claims about settings, checked under SpecBatchSize                      *)
(***************************************************************************)
\* the number the setting was given as, 500 when it was not given
ConfiguredBatchSize ==
    IF ind_attribute_batch_size = <<>> THEN 500 ELSE ParseInt(ind_attribute_batch_size[1])

\* C25: the effective batch size is the configured size (500 when none is
\* configured) brought into [50, 5000]: 50 for a smaller one, 5000 for a
\* larger one, the configured size itself otherwise; "10" gives 50 and
\* "100000" gives 5000.
C25_BatchSizeClamped ==
    settings_pc = "done"
        => /\ ConfiguredBatchSize < 50 => IND_BATCH_SIZE = 50
           /\ ConfiguredBatchSize > 5000 => IND_BATCH_SIZE = 5000
           /\ ConfiguredBatchSize \in 50..5000 => IND_BATCH_SIZE = ConfiguredBatchSize
           /\ ind_attribute_batch_size = <<>> => IND_BATCH_SIZE = 500
           /\ ind_attribute_batch_size = << <<1, 0>> >> => IND_BATCH_SIZE = 50
           /\ ind_attribute_batch_size = << <<1, 0, 0, 0, 0, 0>> >> => IND_BATCH_SIZE = 5000
           /\ ind_attribute_batch_size = << <<4, 9, 9, 9>> >> => IND_BATCH_SIZE = 4999

\* C25 witness: the size was configured as "10" and 50 is used
C25_Witness ==
    /\ settings_pc = "done"
    /\ ind_attribute_batch_size = << <<1, 0>> >>
    /\ IND_BATCH_SIZE = 50

(***************************************************************************)
(* Claims about the refresh, checked under SpecRefresh                     *)
(***************************************************************************)
\* the threshold: the configured interval, 60 when none is configured,
\* brought into [30, 300]
RefreshThreshold ==
    LET option == event_save_memory_refresh_interval
        given == IF option = <<>> THEN 60 ELSE ParseInt(option[1])
    IN IF given < 30 THEN 30 ELSE IF given > 300 THEN 300 ELSE given

\* the thread has decided about the refresh or has given up saving, with an
\* interval that is a number or is not configured
RefreshDecided ==
    /\ evt_pc \in {"refresh", "done"}
    /\ event_save_memory_refresh_interval # << <<>> >>

TransientFailureOver ==
    /\ call_pc \in {"returned", "raised"}
    /\ attempts # <<>>
    /\ attempts[1] \in {"exc", "err_dict", "err_tuple"}

\* C27: every call that the import makes to MISP goes through self._retry:
\* a call whose first invocation failed has been invoked again, after a
\* sleep.
C27_EveryCallRetried ==
    TransientFailureOver => Len(attempts) > 1 /\ slept # <<>>

(***************************************************************************)
(* Claims about the construction of the importer, checked under SpecCtor   *)
(***************************************************************************)
\* the settings that the importer requires
RequiredSettings ==
    {"misp_url", "misp_auth_key", "crowdstrike_org_uuid",
     "reports_timestamp_filename", "indicators_timestamp_filename",
     "actors_timestamp_filename"}

\* C28: when a required setting is missing the construction never gets to the
\* creation of the MISP client: no client exists, and once the loop over the
\* settings has met the missing one the run is aborted with SystemExit.
C28_MissingSettingAborts ==
    ~(RequiredSettings \subseteq import_settings)
        => /\ misp_client = None
           /\ ctor_pc \in {"confirm", "SystemExit"}
           /\ ctor_pc = "confirm" =>
                  \A n \in 1..(item - 1) : confirm_settings[n] \in import_settings

\* the run was aborted at the last of the required settings, the only one
\* that is missing
C28_Witness ==
    /\ ctor_pc = "SystemExit"
    /\ item = Len(confirm_settings)
    /\ import_settings = SettingKeys \ {"actors_timestamp_filename"}
    /\ misp_client = None

(***************************************************************************)
(* Claims about the start time of a run, checked under SpecStart           *)
(***************************************************************************)
\* get_indicators has been called
StartPassed == start_pc = "got"

\* the start time that the configuration alone gives
StartFromConfiguration == Today - 60 * Min(indicators_mins_before, 20220)

\* C29: with force off and a timestamp file, the start time given to
\* get_indicators is the whole number that the previous run committed; with
\* force on it is the start time of the configuration, whatever the file
\* holds.
C29_StartIsCheckpointUnlessForced ==
    StartPassed =>
        /\ (~force /\ isfile) => start_get_events = IntOf(note_arg)
        /\ force => start_get_events = StartFromConfiguration

\* a run started from the request time of an empty run, written as a float
C29_Witness ==
    /\ StartPassed
    /\ ~force
    /\ isfile
    /\ ts_file = <<1, 0, 5>>
    /\ note_arg.kind = "float"
    /\ note_arg.tenths = 7
    /\ start_get_events = 105

\* a forced run next to a timestamp file
C29_ForcedWitness ==
    /\ StartPassed
    /\ force
    /\ isfile
    /\ ts_file = <<1, 9, 9, 9, 9, 4, 0>>
    /\ start_get_events = Today - 60 * 20220

(***************************************************************************)
(* Claims about the threat level of a family event, checked under Spec     *)
(***************************************************************************)
\* the family event that an indicator thread finds for a title is there
\* before and after the step
FamilyEventKept(title) ==
    /\ FindEvent(feeds, title) # NoEvent
    /\ FindEvent(feeds', title) # NoEvent

\* C30: the threat level of the event of a malware family is never lowered
\* within a run (its threat_level_id never grows), neither by an indicator
\* thread nor by the refresh of the event in self.feeds.
C30_ThreatLevelNeverLowered ==
    [][\A title \in FamilyTitles :
          FamilyEventKept(title)
              => feeds'[FindEvent(feeds', title)].threat_level_id
                     <= feeds[FindEvent(feeds, title)].threat_level_id]_vars

(***************************************************************************)
(* Claims about the flush of a batch, checked under Spec                   *)
(***************************************************************************)
\* event_thread n replaces its event in self.feeds in this step
Refreshes(n) ==
    /\ main_pc = "flush"
    /\ n \in DOMAIN flushers
    /\ flushers[n].pc = "refresh_swap"
    /\ flushers'[n].pc = "done"
    /\ feeds' # feeds

\* the positions of self.feeds that hold an event with the title
Titled(fs, title) == {k \in DOMAIN fs : fs[k].info = title}

\* C31: when an event_thread refreshes the event titled T, self.feeds holds
\* afterwards exactly one event titled T, the one fetched from MISP, and every
\* event with another title is still there, as it was.
C31_RefreshReplacesOnlyItsEvent ==
    [][\A n \in DOMAIN flushers :
          Refreshes(n) =>
              /\ Cardinality(Titled(feeds', flushers[n].title)) = 1
              /\ \A k \in Titled(feeds', flushers[n].title) :
                    feeds'[k] = Loaded(flushers[n].title,
                                       misp_server[flushers[n].evt.uuid])
              /\ \A k \in DOMAIN feeds :
                    feeds[k].info # flushers[n].title
                        => \E j \in DOMAIN feeds' : feeds'[j] = feeds[k]]_vars

\* event_thread n calls self.misp.update_event in this step
Attempts(n) ==
    /\ main_pc = "flush"
    /\ n \in DOMAIN flushers
    /\ n \in DOMAIN flushers'
    /\ flushers[n].pc \in {"queued", "save"}
    /\ flushers'[n] # flushers[n]

\* C32: in one flush the update of a dirty event is attempted at most three
\* times and never after an attempt that succeeded: an attempt is the first,
\* second or third of its thread, by a thread that has not succeeded, each
\* title has one thread, and a failed attempt is one invocation that either
\* ends the thread or is counted.
C32_AtMostThreeSaves ==
    [][\A n \in DOMAIN flushers :
          Attempts(n) =>
              /\ flushers[n].tries \in 1..3
              /\ flushers[n].pc = "queued" => flushers[n].tries = 1
              /\ ~flushers[n].successful
              /\ flushers'[n].pc = "save" => flushers'[n].tries = flushers[n].tries + 1
              /\ flushers'[n].successful => flushers'[n].pc \in {"refresh", "done"}
              /\ \A o \in DOMAIN flushers :
                    flushers[o].title = flushers[n].title => o = n]_vars

\* a thread has given up after its third failed attempt
C32_Witness ==
    /\ main_pc = "flush"
    /\ \E n \in DOMAIN flushers :
          /\ flushers[n].pc = "done"
          /\ ~flushers[n].successful
          /\ flushers[n].title \in unsaved

(***************************************************************************)
(* Claims about self.dirty_feeds, checked under Spec                       *)
(***************************************************************************)
\* self.dirty_feeds.get(title, 0)
DirtyCount(df, title) == IF title \in DOMAIN df THEN df[title] ELSE 0

\* indicator thread k records in this step the attribute it has attached
MarksDirty(k) ==
    /\ main_pc = "workers"
    /\ k \in DOMAIN workers
    /\ workers[k].pc \in {"dirty_new", "dirty_inc"}
    /\ workers'[k].pc \notin {"dirty_new", "dirty_inc"}

\* C33: the dirty count of an event is the number of attributes attached to
\* it since it was last popped from self.dirty_feeds, whatever the
\* interleaving: every thread that has attached an attribute to the event
\* adds exactly one to the count the event has.
C33_DirtyCountCountsEveryAttribute ==
    [][\A k \in DOMAIN workers :
          MarksDirty(k) =>
              LET title == feeds[TargetEvent(workers[k])].info
              IN DirtyCount(dirty_feeds', title)
                     = DirtyCount(dirty_feeds, title) + 1]_vars

(***************************************************************************)
(* Claims about add_sighting_to_attribute, checked under Spec              *)
(***************************************************************************)
\* thread k is on the path of add_sighting_to_attribute that sends a sighting,
\* or on the one that skips
OnSendPath(k) == workers[k].pc \in {"sight_send", "sight_count_lock", "sight_count"}
OnSightSkipPath(k) == workers[k].pc \in SkipPcs

\* C34: with do_sightings set, add_sighting_to_attribute sends a sighting if
\* and only if the indicator's last_seen is greater than the timestamp of the
\* stored attribute; otherwise it sends none and adds exactly one to
\* self.skipped.
C34_SightingIffNewer ==
    [][\A k \in DOMAIN workers \cap DOMAIN workers' :
          /\ (AttributeSiteDecides(k) /\ workers'[k].pc \in SendPcs \cup SkipPcs)
                => /\ do_sightings
                   /\ workers'[k].pc = "sight_send"
                        <=> LastSeen(batch[k]) > workers'[k].ind_obj
                   /\ workers'[k].pc \in SendPcs \cup {"sight_skip_lock"}
          /\ (OnSightSkipPath(k) /\ workers'[k] # workers[k])
                => /\ workers'[k].pc \notin SendPcs \cup {"sight_count_lock", "sight_count"}
                   /\ added_sighting_count' = added_sighting_count
                   /\ skipped' = IF workers[k].pc = "sight_skip" THEN skipped + 1
                                 ELSE skipped
          /\ (OnSendPath(k) /\ workers'[k] # workers[k])
                => /\ workers'[k].pc \notin SkipPcs
                   /\ skipped' = skipped]_vars

\* a thread is about to count as skipped an indicator whose last_seen is the
\* timestamp of the stored attribute, while the Lock is its own
C34_Witness ==
    \E k \in DOMAIN workers :
        /\ workers[k].pc = "sight_skip"
        /\ lock_owner = k
        /\ LastSeen(batch[k]) = workers[k].ind_obj
        /\ LastSeen(batch[k]) > 0

(***************************************************************************)
(* Claims about a save that failed, checked under SpecThreeBatches        *)
(***************************************************************************)
\* the attributes of the event of self.feeds that an indicator thread finds
\* for the title
AttributesInMemory(fs, title) ==
    IF FindEvent(fs, title) = NoEvent THEN <<>>
    ELSE fs[FindEvent(fs, title)].attributes

\* s is a prefix of t
Prefix(s, t) == Len(s) <= Len(t) /\ SubSeq(t, 1, Len(s)) = s

\* event_thread n saves in this step an event whose last save failed
SavesAfterFailure(n) ==
    /\ Attempts(n)
    /\ flushers[n].title \in unsaved
    /\ flushers'[n].successful

\* C35: an event whose save failed in a flush keeps its attributes in
\* self.feeds, and when it is dirty again in a later batch its next save
\* sends all of them: what MISP then holds of the event are the attributes
\* the event has in memory.
C35_FailedSaveIsMadeUpLater ==
    [][/\ \A title \in unsaved \cap unsaved' :
             /\ FindEvent(feeds', title) # NoEvent
             /\ Prefix(AttributesInMemory(feeds, title),
                       AttributesInMemory(feeds', title))
       /\ \A n \in DOMAIN flushers :
             SavesAfterFailure(n) =>
                 misp_server'[flushers[n].evt.uuid].attributes
                     = AttributesInMemory(feeds, flushers[n].title)]_vars

\* the batches of a list of batches, one after the other
RECURSIVE Flatten(_)
Flatten(batches) ==
    IF batches = <<>> THEN <<>>
    ELSE Head(batches) \o Flatten(Tail(batches))

\* the number of indicators of the page in the batches handed out so far
Dispatched == Len(indicators) - Len(Flatten(ind_batches))

\* the batches not yet handed out are the rest of the page in page order,
\* each but the last of the effective batch size and the last of 1 up to it
RestOfPageInBatches ==
    /\ Dispatched \in 0..Len(indicators)
    /\ Flatten(ind_batches)
           = SubSeq(indicators, Dispatched + 1, Len(indicators))
    /\ \A j \in DOMAIN ind_batches :
          /\ Len(ind_batches[j]) \in 1..IND_BATCH_SIZE
          /\ j < Len(ind_batches) => Len(ind_batches[j]) = IND_BATCH_SIZE

\* the batch in work is the slice of the page just before the rest, starts
\* at a multiple of the batch size, and has one thread per indicator
BatchIsSliceOfPage ==
    batch # <<>> =>
        /\ Len(batch) \in 1..IND_BATCH_SIZE
        /\ ind_batches # <<>> => Len(batch) = IND_BATCH_SIZE
        /\ (Dispatched - Len(batch)) % IND_BATCH_SIZE = 0
        /\ batch = SubSeq(indicators, Dispatched - Len(batch) + 1, Dispatched)
        /\ main_pc = "workers" => DOMAIN workers = DOMAIN batch

\* process_indicator_batch hands the next batch, whole, to new threads
DispatchesNextBatch ==
    (main_pc = "batch" /\ main_pc' = "workers") =>
        /\ batch' = Head(ind_batches)
        /\ ind_batches' = Tail(ind_batches)
        /\ DOMAIN workers' = DOMAIN batch'
        /\ \A k \in DOMAIN workers' : workers'[k].pc = "queued"

\* the loop over the batches of a page is left after the last batch
PageLeftWhenDispatched ==
    (main_pc = "batch" /\ main_pc' = "fetch") =>
        /\ ind_batches = <<>>
        /\ Dispatched = Len(indicators)

\* C36: the batches partition the page: they are contiguous slices in page
\* order, every batch but the last has exactly the effective batch size and
\* the last has between 1 and that size, and every indicator of the page is
\* handed to an indicator thread exactly once (the batch in work has one
\* thread per indicator, and the page is left only when no batch remains).
C36_BatchesPartitionPage ==
    /\ [](RestOfPageInBatches /\ BatchIsSliceOfPage)
    /\ [][DispatchesNextBatch /\ PageLeftWhenDispatched]_vars

\* the last batch of a page of five, sliced by two, is one indicator, and
\* its thread has finished
C36_Witness ==
    /\ main_pc = "workers"
    /\ Len(indicators) = 5
    /\ IND_BATCH_SIZE = 2
    /\ ind_batches = <<>>
    /\ batch = <<indicators[5]>>
    /\ DOMAIN workers = {1}
    /\ workers[1].pc = "done"

\* the positions at which a thread of a batch holds the Lock
HeldPcs == {LockedPc(pc) : pc \in LockPcs}

\* the Lock is requested only by threads that do not hold it, and the thread
\* recorded as its owner is at a position inside a "with lock:" block
NoLockRequestedByHolder ==
    /\ main_pc = "workers" =>
          \A k \in DOMAIN workers :
             /\ workers[k].pc \in LockPcs => lock_owner # k
             /\ lock_owner = k <=> workers[k].pc \in HeldPcs
    /\ main_pc = "flush" =>
          \A n \in DOMAIN flushers :
             /\ flushers[n].pc = "refresh_lock" => lock_owner # n
             /\ lock_owner = n <=> flushers[n].pc = "refresh_swap"

\* the run has returned or has been left by an exception
RunEnded == main_pc \in {"done", "aborted"}

\* C37: no thread requests the shared non-reentrant Lock while it holds it;
\* so under fair scheduling the threads of every batch all return or raise
\* and the main thread leaves the batch, the save threads of every flush all
\* return or raise and the main thread leaves the flush, and the run over its
\* finite sequence of pages ends, whichever calls to MISP fail.
C37_NoSelfDeadlockAndTermination ==
    /\ []NoLockRequestedByHolder
    /\ (main_pc = "workers") ~> (main_pc # "workers")
    /\ (main_pc = "flush") ~> (main_pc # "flush")
    /\ <>RunEnded

\* the run over MaxPages pages has ended normally, after a flush in which
\* every attempt to save an event failed
C37_Witness ==
    /\ main_pc = "done"
    /\ unsaved # {}
    /\ pages_fetched = MaxPages

====
